---- MODULE Spec2Model ----
(***************************************************************************)
(* A model of the signal -> confidence -> position-sizing pipeline of      *)
(* OracleAI: SignalAggregationSkill, ConfidenceScoringSkill, ExecutionSkill *)
(* and the BaseAgent operations that drive them.                           *)
(*                                                                         *)
(* JavaScript numbers are modelled in fixed point: the integer n stands    *)
(* for the number n / One.  Every multiplication and division rounds to    *)
(* the nearest unit, as the double operation rounds to the nearest double; *)
(* a product or quotient of number values moreover keeps only as many      *)
(* significant digits as One has zeros, as a double keeps 53 significant   *)
(* bits, so that the rounding error is relative to the magnitude.          *)
(* Where the code can produce NaN or an infinity (a division by zero, an   *)
(* arithmetic operation on undefined) the number is a record that says so. *)
(***************************************************************************)
EXTENDS Integers, Sequences, FiniteSets, TLC

VARIABLES
    call,             \* the pending invocation of a pure method: its receiver's config and its arguments
    ret,              \* what that invocation returned (Pending before it ran)
    calibrationData,  \* ConfidenceScoringSkill.calibrationData: marketType -> {samples, buckets}
    outcomes,         \* the recordOutcome calls made so far, oldest first
    cache,            \* SignalAggregationSkill.cache: cacheKey -> {data, timestamp}
    now,              \* Date.now(), in clock ticks
    inflight,         \* caller -> its aggregate() call suspended at await Promise.allSettled
    fetched,          \* how many source fetches were issued so far
    returned,         \* the aggregate() calls that returned and the clearCache() calls, in order
    dryRun,           \* ExecutionSkill.config.dryRun after construction
    clients,          \* ExecutionSkill.clients after init(): the platforms with a client
    placed,           \* the orders handed to a venue client's placeOrder
    trades,           \* BaseAgent.state.trades
    executed,         \* what the ExecutionSkill.execute() calls made so far returned, oldest first
    skills,           \* BaseAgent.skills: skill name -> the skill object registered under it
    attached,         \* the skill objects whose agent field is this agent
    running,          \* OracleAI.running
    timer,            \* OracleAI.timer: the interval handle it holds, or NoTimer (null)
    timers,           \* the interval timers the runtime has scheduled and not cleared
    awaiting,         \* the async calls suspended at an await, by their call's place in events
    events,           \* the calls made on the orchestrator or the agent, their returns and the runAll invocations, oldest first
    statePerformance, \* BaseAgent.state.performance
    disk,             \* the agent's state.json: NoFile, or the state saveState() wrote last
    agents,           \* OracleAI.agents: the entries of the Map, in its iteration order
    sweeps            \* the runAll() calls, by their call's place in events: how far each got

vars == <<call, ret, calibrationData, outcomes, cache, now, inflight, fetched,
          returned, dryRun, clients, placed, trades, executed, skills, attached,
          running, timer, timers, awaiting, events, statePerformance, disk,
          agents, sweeps>>

\* The orchestrator as its constructor leaves it: not running, no timer
NoTimer == 0
OrchestratorVars == <<running, timer, timers, awaiting, events>>
OrchestratorIdle ==
    running = FALSE /\ timer = NoTimer /\ timers = {} /\ awaiting = {} /\ events = <<>>

\* The agent's state as its constructor leaves it, and no state file
NoFile == [file |-> FALSE]
FreshPerformance == [total |-> 0, wins |-> 0, losses |-> 0, winRate |-> 0, pnl |-> 0]
RecordVars == <<statePerformance, disk>>
RecordIdle == statePerformance = FreshPerformance /\ disk = NoFile

\* The orchestrator's registry as its constructor leaves it, and no runAll() call
RegistryVars == <<agents, sweeps>>
RegistryIdle == agents = <<>> /\ sweeps = [x \in {} |-> 0]

\* The agent's skill registry, untouched
AgentVars == <<skills, attached, OrchestratorVars, RecordVars, RegistryVars>>
AgentIdle ==
    /\ skills = [x \in {} |-> 0] /\ attached = {}
    /\ OrchestratorIdle /\ RecordIdle /\ RegistryIdle

-----------------------------------------------------------------------------
(* Fixed-point arithmetic *)

\* The integer that stands for 1.0.
One == 10 * 10 * 10

\* n / d rounded to the nearest integer (halves up), for d # 0.
Round(n, d) ==
    IF d > 0 THEN (2 * n + d) \div (2 * d)
    ELSE (2 * (0 - n) + (0 - d)) \div (2 * (0 - d))

\* a * b of two fixed-point numbers; the product is split so that it stays in range.
Mul(a, b) == (a \div One) * b + Round((a % One) * b, One)

\* a / b of two fixed-point numbers, b # 0.
Div(a, b) ==
    IF b > 0 THEN (a \div b) * One + Round((a % b) * One, b)
    ELSE ((0 - a) \div (0 - b)) * One + Round(((0 - a) % (0 - b)) * One, 0 - b)

Min(a, b) == IF a < b THEN a ELSE b
Max(a, b) == IF a > b THEN a ELSE b
Abs(a) == IF a < 0 THEN 0 - a ELSE a

\* The fixed-point number of a decimal given in hundredths: Pct(55) is 0.55.
Pct(h) == h * (One \div 100)

\* The power of ten by which a magnitude exceeds the significand
RECURSIVE Exponent(_)
Exponent(a) == IF a < One THEN 1 ELSE 10 * Exponent(a \div 10)

\* n rounded to its leading significant digits, as the result of a floating-point
\* operation is rounded to its significand
Significant(n) == Round(n, Exponent(Abs(n))) * Exponent(Abs(n))

-----------------------------------------------------------------------------
(* JavaScript values: a finite number, NaN, an infinity, undefined, null, a  *)
(* boolean or a string (of which only the length matters)                   *)

Num(v) == [t |-> "number", v |-> v]
NaN == [t |-> "NaN", v |-> 0]
PosInf == [t |-> "Infinity", v |-> 1]
NegInf == [t |-> "Infinity", v |-> -1]
Undefined == [t |-> "undefined", v |-> 0]
Null == [t |-> "null", v |-> 0]
Bool(b) == [t |-> "boolean", v |-> IF b THEN 1 ELSE 0]
Str(length) == [t |-> "string", v |-> length]
\* A key that the object does not have
Absent == [t |-> "absent", v |-> 0]
\* object.key: undefined when the object has no such key
Get(x) == IF x = Absent THEN Undefined ELSE x

IsNum(x) == x.t = "number"
IsInf(x) == x.t = "Infinity"
\* NaN, and undefined converted to a number
IsNaN(x) == x.t \in {"NaN", "undefined"}
Sign(x) == IF x.v > 0 THEN 1 ELSE IF x.v < 0 THEN -1 ELSE 0

\* Truthiness of a value used as a condition: undefined, null, NaN, 0, false and ''
\* are falsy
Truthy(x) ==
    ~(IsNaN(x) \/ x.t = "null" \/ (x.t \in {"number", "boolean", "string"} /\ x.v = 0))

\* x || d
OrElse(x, d) == IF Truthy(x) THEN x ELSE d

JAdd(x, y) ==
    IF IsNaN(x) \/ IsNaN(y) THEN NaN
    ELSE IF IsInf(x) /\ IsInf(y) THEN (IF x.v = y.v THEN x ELSE NaN)
    ELSE IF IsInf(x) THEN x
    ELSE IF IsInf(y) THEN y
    ELSE Num(x.v + y.v)

JNeg(x) == IF IsNum(x) \/ IsInf(x) THEN [x EXCEPT !.v = 0 - x.v] ELSE NaN

JSub(x, y) == JAdd(x, JNeg(y))

JMul(x, y) ==
    IF IsNaN(x) \/ IsNaN(y) THEN NaN
    ELSE IF IsInf(x) \/ IsInf(y)
         THEN (IF Sign(x) * Sign(y) = 0 THEN NaN
               ELSE IF Sign(x) * Sign(y) > 0 THEN PosInf ELSE NegInf)
    ELSE Num(Significant(Mul(x.v, y.v)))

JDiv(x, y) ==
    IF IsNaN(x) \/ IsNaN(y) THEN NaN
    ELSE IF IsInf(x) /\ IsInf(y) THEN NaN
    ELSE IF IsInf(x) THEN (IF Sign(x) * (IF Sign(y) < 0 THEN -1 ELSE 1) > 0 THEN PosInf ELSE NegInf)
    ELSE IF IsInf(y) THEN Num(0)
    ELSE IF y.v = 0
         THEN (IF x.v = 0 THEN NaN ELSE IF x.v > 0 THEN PosInf ELSE NegInf)
    ELSE Num(Significant(Div(x.v, y.v)))

\* x < y as JavaScript compares numbers: false when either is NaN
JLess(x, y) ==
    IF IsNaN(x) \/ IsNaN(y) THEN FALSE
    ELSE IF IsInf(x) THEN x.v < 0 /\ ~(IsInf(y) /\ y.v < 0)
    ELSE IF IsInf(y) THEN y.v > 0
    ELSE x.v < y.v

\* Math.min and Math.max: NaN when either argument is NaN
JMin(x, y) == IF IsNaN(x) \/ IsNaN(y) THEN NaN ELSE IF JLess(y, x) THEN y ELSE x
JMax(x, y) == IF IsNaN(x) \/ IsNaN(y) THEN NaN ELSE IF JLess(x, y) THEN y ELSE x

Pending == [t |-> "pending", v |-> 0]

-----------------------------------------------------------------------------
(* ExecutionSkill.calculatePositionSize *)

\* const kellyFraction = 0.25
kellyFraction == Pct(25)

\* The cap on the full Kelly fraction: Math.min(kelly, 0.5)
kellyCap == Pct(50)

\* The Kelly fraction with the odds taken as 1 / marketPrice
kellyOf_GrossOdds(confidence, marketPrice) ==
    LET p == confidence
        q == JSub(Num(One), p)
        b == JDiv(Num(One), OrElse(marketPrice, Num(Pct(50))))
    IN JDiv(JSub(JMul(b, p), q), b)

\* The full Kelly fraction (b * p - q) / b with b = 1 / (marketPrice || 0.5) - 1
kellyOf(confidence, marketPrice) ==
    LET p == confidence
        q == JSub(Num(One), p)
        b == JSub(JDiv(Num(One), OrElse(marketPrice, Num(Pct(50)))), Num(One))
    IN JDiv(JSub(JMul(b, p), q), b)

\* calculatePositionSize without the cap at the agent's maximum bet size
calculatePositionSize_Uncapped(confidence, marketPrice, bankroll, maxBetSize) ==
    LET roll == OrElse(bankroll, Num(1000 * One))
        kelly == kellyOf(confidence, marketPrice)
        capped == JMax(Num(0), JMin(kelly, Num(kellyCap)))
    IN JMul(JMul(roll, capped), Num(kellyFraction))

\* calculatePositionSize(prediction) of a skill whose config.bankroll is bankroll and
\* whose agent's config.maxBetSize is maxBetSize (Undefined: not given, or no agent).
calculatePositionSize(confidence, marketPrice, bankroll, maxBetSize) ==
    LET roll == OrElse(bankroll, Num(1000 * One))
        kelly == kellyOf(confidence, marketPrice)
        capped == JMax(Num(0), JMin(kelly, Num(kellyCap)))
        size == JMul(JMul(roll, capped), Num(kellyFraction))
    IN JMin(size, OrElse(maxBetSize, Num(100 * One)))

\* The inputs of calculatePositionSize
Confidences == {Num(Pct(h)) : h \in {0, 10, 30, 50, 55, 56, 70, 90, 99, 100}}
MarketPrices ==
    {Undefined} \cup {Num(Pct(h)) : h \in {-50, 0, 1, 5, 30, 50, 55, 90, 99, 100, 150}}
Bankrolls == {Undefined} \cup {Num(d * One) : d \in {-1000, 0, 100, 1000, 10000}}
MaxBetSizes == {Undefined} \cup {Num(d * One) : d \in {0, 50, 500, 1000}}

SizerCalls ==
    [op : {"calculatePositionSize"}, confidence : Confidences, marketPrice : MarketPrices,
     bankroll : Bankrolls, maxBetSize : MaxBetSizes]

Idle ==
    /\ calibrationData = [x \in {} |-> 0]
    /\ outcomes = <<>>
    /\ cache = [x \in {} |-> 0]
    /\ now = 0
    /\ inflight = [x \in {} |-> 0]
    /\ fetched = 0
    /\ returned = <<>>
    /\ dryRun = Undefined
    /\ clients = {}
    /\ placed = <<>>
    /\ trades = <<>>
    /\ executed = <<>>
    /\ AgentIdle

StateVars ==
    <<calibrationData, outcomes, cache, now, inflight, fetched, returned, dryRun,
      clients, placed, trades, executed, AgentVars>>

InitSizer ==
    /\ call \in SizerCalls
    /\ ret = Pending
    /\ Idle

CalculatePositionSize ==
    /\ call.op = "calculatePositionSize"
    /\ ret = Pending
    /\ ret' = calculatePositionSize(call.confidence, call.marketPrice, call.bankroll,
                                    call.maxBetSize)
    /\ UNCHANGED <<call, StateVars>>

NextSizer == CalculatePositionSize

SpecSizer == InitSizer /\ [][NextSizer]_vars

-----------------------------------------------------------------------------
(* SignalAggregationSkill.normalizeSignal and calculateWeightedScore *)

\* A signal: its type and the fields the aggregation reads (Undefined: the field is absent).
\* change24h is in percent: Num(30 * One) is a change of 30%.
Signal(type, sentiment, change24h, weight) ==
    [type |-> type, sentiment |-> sentiment, change24h |-> change24h, weight |-> weight]

\* normalizeSignal that maps every signal carrying a sentiment linearly, whatever its type
normalizeSignal_BySentiment(signal) ==
    IF IsNum(signal.sentiment) THEN JDiv(JAdd(signal.sentiment, Num(One)), Num(2 * One))
    ELSE IF signal.type = "onchain"
    THEN LET v == JAdd(Num(Pct(50)), JDiv(signal.change24h, Num(100 * One)))
         IN IF JLess(Num(0), signal.change24h) THEN JMin(v, Num(One)) ELSE JMax(v, Num(0))
    ELSE IF signal.type \in {"news", "social"}
    THEN JDiv(JAdd(signal.sentiment, Num(One)), Num(2 * One))
    ELSE Num(Pct(50))

normalizeSignal(signal) ==
    CASE signal.type \in {"news", "social"} ->
            JDiv(JAdd(signal.sentiment, Num(One)), Num(2 * One))
      [] signal.type = "onchain" ->
            LET v == JAdd(Num(Pct(50)), JDiv(signal.change24h, Num(100 * One)))
            IN IF JLess(Num(0), signal.change24h) THEN JMin(v, Num(One)) ELSE JMax(v, Num(0))
      [] OTHER -> Num(Pct(50))

\* The loop of calculateWeightedScore over signals[i..]: <<weightedSum, totalWeight>>
RECURSIVE weightedTotals(_, _, _, _)
weightedTotals(signals, i, weightedSum, totalWeight) ==
    IF i > Len(signals) THEN <<weightedSum, totalWeight>>
    ELSE LET weight == OrElse(signals[i].weight, Num(One))
             score == normalizeSignal(signals[i])
         IN weightedTotals(signals, i + 1, JAdd(weightedSum, JMul(score, weight)),
                           JAdd(totalWeight, weight))

calculateWeightedScore(signals) ==
    IF Len(signals) = 0 THEN Num(Pct(50))
    ELSE LET t == weightedTotals(signals, 1, Num(0), Num(0))
         IN IF JLess(Num(0), t[2]) THEN JDiv(t[1], t[2]) ELSE Num(Pct(50))

\* The longest signal list the score is checked on
MaxSignals == 2

Sentiments == {Num(Pct(h)) : h \in {-100, 0, 80, 100}}
Changes == {Num(c * One) : c \in {-80, -20, 30, 70}}
Weights == {Undefined} \cup {Num(Pct(h)) : h \in {0, 25, 50}}

\* Signals as the sources emit them, signals of an unknown type (with or without a
\* sentiment), and signals that lack the field their type is normalized by.
Signals ==
    {Signal(ty, s, Undefined, w) : ty \in {"news", "social"}, s \in Sentiments \cup {Undefined},
                                    w \in Weights}
    \cup {Signal("onchain", Undefined, c, w) : c \in Changes \cup {Undefined}, w \in Weights}
    \cup {Signal("custom", s, Undefined, w) : s \in {Undefined, Num(Pct(80))}, w \in Weights}

\* A signal that carries the field its type is normalized by
WellFormed(signal) ==
    /\ signal.type \in {"news", "social"} => IsNum(signal.sentiment)
    /\ signal.type = "onchain" => IsNum(signal.change24h)

SignalLists == UNION {[1..n -> Signals] : n \in 0..MaxSignals}

InitScore ==
    /\ call \in [op : {"calculateWeightedScore"}, signals : SignalLists]
    /\ ret = Pending
    /\ Idle

CalculateWeightedScore ==
    /\ call.op = "calculateWeightedScore"
    /\ ret = Pending
    /\ ret' = calculateWeightedScore(call.signals)
    /\ UNCHANGED <<call, StateVars>>

NextScore == CalculateWeightedScore

SpecScore == InitScore /\ [][NextScore]_vars

-----------------------------------------------------------------------------
(* ConfidenceScoringSkill: the calibration ledger *)

\* A Map with no entries
EmptyMap == [x \in {} |-> 0]

\* Math.floor(confidence * 10): the bucket with key k / 10 holds confidences in
\* [k/10, (k+1)/10).  A confidence that is not a number has no bucket (key NaN).
NoBucket == 0 - 1
bucketOf(confidence) ==
    IF IsNum(confidence) THEN Mul(confidence.v, 10 * One) \div One ELSE NoBucket

\* The accuracy taken over the samples of the whole market type
accuracyOf_OverLedger(bucketData, cal) == Round(bucketData.correct * One, cal.samples)

\* recordOutcome that counts every outcome as correct
recordOutcome_AlwaysCorrect(cd, predictedConfidence, actualOutcome, marketType) ==
    LET bucket == bucketOf(predictedConfidence)
        cal0 == IF marketType \in DOMAIN cd THEN cd[marketType]
                ELSE [samples |-> 0, buckets |-> EmptyMap]
        old == IF bucket \in DOMAIN cal0.buckets THEN cal0.buckets[bucket]
               ELSE [samples |-> 0, correct |-> 0, accuracy |-> 0]
        new == [samples |-> old.samples + 1, correct |-> old.correct + 1, accuracy |-> One]
    IN [m \in DOMAIN cd \cup {marketType} |->
            IF m = marketType
            THEN [samples |-> cal0.samples + 1,
                  buckets |-> [k \in DOMAIN cal0.buckets \cup {bucket} |->
                                  IF k = bucket THEN new ELSE cal0.buckets[k]]]
            ELSE cd[m]]

\* bucketData.accuracy = bucketData.correct / bucketData.samples
accuracyOf(bucketData, cal) == Round(bucketData.correct * One, bucketData.samples)

\* recordOutcome(predictedConfidence, actualOutcome, marketType = 'default'):
\* the calibrationData it leaves
recordOutcome(cd, predictedConfidence, actualOutcome, marketType) ==
    LET bucket == bucketOf(predictedConfidence)
        cal0 == IF marketType \in DOMAIN cd THEN cd[marketType]
                ELSE [samples |-> 0, buckets |-> EmptyMap]
        old == IF bucket \in DOMAIN cal0.buckets THEN cal0.buckets[bucket]
               ELSE [samples |-> 0, correct |-> 0, accuracy |-> 0]
        new == [old EXCEPT !.samples = @ + 1,
                           !.correct = IF actualOutcome THEN @ + 1 ELSE @]
        counted == [k \in DOMAIN cal0.buckets \cup {bucket} |->
                        IF k = bucket THEN new ELSE cal0.buckets[k]]
        cal == [samples |-> cal0.samples + 1, buckets |-> counted]
        recalculated == [k \in DOMAIN counted |->
                            [counted[k] EXCEPT !.accuracy = accuracyOf(counted[k], cal)]]
    IN [m \in DOMAIN cd \cup {marketType} |->
            IF m = marketType THEN [cal EXCEPT !.buckets = recalculated] ELSE cd[m]]

\* getCalibrationForConfidence(confidence): the bucket of the 'default' ledger, or
\* Undefined
getCalibrationForConfidence(cd, confidence) ==
    LET bucket == bucketOf(confidence)
    IN IF "default" \in DOMAIN cd /\ bucket \in DOMAIN cd["default"].buckets
       THEN cd["default"].buckets[bucket]
       ELSE Undefined

-----------------------------------------------------------------------------
(* ConfidenceScoringSkill.calculate and its components *)

calculateBaseConfidence(prediction) ==
    LET raw == OrElse(prediction.rawConfidence, Num(Pct(50))).v
        byModel == IF prediction.model = "ensemble" THEN Mul(raw, Pct(110))
                   ELSE IF prediction.model = "naive" THEN Mul(raw, Pct(90))
                   ELSE raw
        byQuality == IF Truthy(prediction.dataQuality)
                     THEN Mul(byModel, Pct(50) + Mul(prediction.dataQuality.v, Pct(50)))
                     ELSE byModel
    IN Min(byQuality, Pct(95))

RECURSIVE SumSeq(_)
SumSeq(values) == IF values = <<>> THEN 0 ELSE Head(values) + SumSeq(Tail(values))

calculateVariance(values) ==
    LET mean == Round(SumSeq(values), Len(values))
        squaredDiffs == [i \in 1..Len(values) |-> Mul(values[i] - mean, values[i] - mean)]
    IN Round(SumSeq(squaredDiffs), Len(values))

calculateSignalConfidence(signals) ==
    IF Len(signals.signals) = 0 THEN Pct(50)
    ELSE
        LET sigs == signals.signals
            sentimentSignals == SelectSeq(sigs, LAMBDA s : s.sentiment # Undefined)
            sentiments == [i \in 1..Len(sentimentSignals) |-> sentimentSignals[i].sentiment.v]
            consensusScore == IF Len(sentimentSignals) > 1
                              THEN Max(0, One - calculateVariance(sentiments))
                              ELSE Pct(50)
            sourceTypes == Cardinality({sigs[i].type : i \in 1..Len(sigs)})
            diversityScore == Min(Round(sourceTypes * One, 3), One)
            strengths == [i \in 1..Len(sigs) |-> Abs(OrElse(sigs[i].sentiment, Num(Pct(50))).v)]
            avgSignalStrength == Round(SumSeq(strengths), Len(sigs))
        IN Mul(consensusScore, Pct(40)) + Mul(diversityScore, Pct(30))
           + Mul(avgSignalStrength, Pct(30))

\* calculateHistoryConfidence without the test of performance.total
calculateHistoryConfidence_NoMinimum(config, cd, performance, prediction) ==
    IF performance = Undefined
    THEN Pct(50)
    ELSE
        LET winRate == OrElse(performance.winRate, Num(Pct(50))).v
            recent == IF Truthy(performance.recentWinRate)
                      THEN Mul(winRate, Pct(60)) + Mul(performance.recentWinRate.v, Pct(40))
                      ELSE winRate
            calibration == getCalibrationForConfidence(cd, prediction.rawConfidence)
            calibrated == IF calibration # Undefined
                          THEN Mul(recent, Pct(70)) + Mul(calibration.accuracy, Pct(30))
                          ELSE recent
        IN IF JLess(performance.pnl, Num(0)) THEN Mul(calibrated, Pct(80)) ELSE calibrated

\* performance is Undefined or the agent's record {total, winRate, recentWinRate, pnl}
calculateHistoryConfidence(config, cd, performance, prediction) ==
    IF performance = Undefined \/ JLess(performance.total, Num(config.minSamplesForHistory))
    THEN Pct(50)
    ELSE
        LET winRate == OrElse(performance.winRate, Num(Pct(50))).v
            recent == IF Truthy(performance.recentWinRate)
                      THEN Mul(winRate, Pct(60)) + Mul(performance.recentWinRate.v, Pct(40))
                      ELSE winRate
            calibration == getCalibrationForConfidence(cd, prediction.rawConfidence)
            calibrated == IF calibration # Undefined
                          THEN Mul(recent, Pct(70)) + Mul(calibration.accuracy, Pct(30))
                          ELSE recent
        IN IF JLess(performance.pnl, Num(0)) THEN Mul(calibrated, Pct(80)) ELSE calibrated

\* applyCalibration that adjusts towards any bucket it finds, however few its samples
applyCalibration_AnyBucket(cd, confidence, marketType) ==
    LET key == IF marketType \in DOMAIN cd THEN marketType ELSE "default"
    IN IF key \notin DOMAIN cd \/ cd[key].samples < 20 THEN confidence
       ELSE
           LET bucket == bucketOf(Num(confidence))
           IN IF bucket \in DOMAIN cd[key].buckets
              THEN confidence + Mul(cd[key].buckets[bucket].accuracy - confidence, Pct(30))
              ELSE confidence

\* applyCalibration(confidence, marketType)
applyCalibration(cd, confidence, marketType) ==
    LET key == IF marketType \in DOMAIN cd THEN marketType ELSE "default"
    IN IF key \notin DOMAIN cd \/ cd[key].samples < 20 THEN confidence
       ELSE
           LET bucket == bucketOf(Num(confidence))
           IN IF bucket \in DOMAIN cd[key].buckets /\ cd[key].buckets[bucket].samples > 5
              THEN confidence + Mul(cd[key].buckets[bucket].accuracy - confidence, Pct(30))
              ELSE confidence

applyMarketAdjustments(confidence, signals) ==
    LET byVolatility ==
            IF Truthy(signals.volatility)
            THEN (IF JLess(Num(Pct(80)), signals.volatility) THEN Mul(confidence, Pct(85))
                  ELSE IF JLess(Num(Pct(50)), signals.volatility) THEN Mul(confidence, Pct(95))
                  ELSE confidence)
            ELSE confidence
    IN IF JLess(signals.liquidity, Num(10000 * One)) THEN Mul(byVolatility, Pct(90))
       ELSE byVolatility

\* The confidence before the final clamp
combinedConfidence(config, cd, prediction, signals, performance) ==
    LET base == calculateBaseConfidence(prediction)
        signal == calculateSignalConfidence(signals)
        history == calculateHistoryConfidence(config, cd, performance, prediction)
        weighted == Mul(base, config.baseWeight) + Mul(signal, config.signalWeight)
                    + Mul(history, config.historyWeight)
        calibrated == IF config.calibrationEnabled
                      THEN applyCalibration(cd, weighted, prediction.marketType)
                      ELSE weighted
    IN applyMarketAdjustments(calibrated, signals)

\* calculate with the upper clamp at 0.99 left out
calculate_NoUpperClamp(config, cd, prediction, signals, performance) ==
    Max(combinedConfidence(config, cd, prediction, signals, performance), Pct(1))

calculate(config, cd, prediction, signals, performance) ==
    Min(Max(combinedConfidence(config, cd, prediction, signals, performance), Pct(1)), Pct(99))

-----------------------------------------------------------------------------
(* The calibration ledger under recordOutcome: SpecLedger *)

\* How many recordOutcome calls a behaviour makes
MaxOutcomes == 4

MarketTypes == {"default", "election"}
OutcomeConfidences == {Num(Pct(h)) : h \in {35, 95, 100}}

\* cal.samples summed over the market types
RECURSIVE TotalSamples(_)
TotalSamples(cd) ==
    IF DOMAIN cd = {} THEN 0
    ELSE LET m == CHOOSE x \in DOMAIN cd : TRUE
         IN cd[m].samples + TotalSamples([x \in DOMAIN cd \ {m} |-> cd[x]])

InitLedger ==
    /\ call = [op |-> "recordOutcome"]
    /\ ret = Pending
    /\ calibrationData = EmptyMap
    /\ outcomes = <<>>
    /\ cache = EmptyMap /\ now = 0 /\ inflight = EmptyMap /\ fetched = 0 /\ returned = <<>>
    /\ dryRun = Undefined /\ clients = {} /\ placed = <<>> /\ trades = <<>>
    /\ executed = <<>>
    /\ AgentIdle

RecordOutcome(predictedConfidence, actualOutcome, marketType) ==
    /\ call.op = "recordOutcome"
    /\ TotalSamples(calibrationData) < MaxOutcomes
    /\ calibrationData' =
           recordOutcome(calibrationData, predictedConfidence, actualOutcome, marketType)
    /\ outcomes' = Append(outcomes, [predictedConfidence |-> predictedConfidence,
                                     actualOutcome |-> actualOutcome,
                                     marketType |-> marketType])
    /\ UNCHANGED <<call, ret, cache, now, inflight, fetched, returned, dryRun, clients,
                   placed, trades, executed, AgentVars>>

NextLedger ==
    \E c \in OutcomeConfidences, ok \in BOOLEAN, m \in MarketTypes : RecordOutcome(c, ok, m)

SpecLedger == InitLedger /\ [][NextLedger]_vars

-----------------------------------------------------------------------------
(* calculate over predictions, signals, performance histories and ledgers: SpecConfidence *)

\* n recordOutcome calls with the same arguments
RECURSIVE recordMany(_, _, _, _, _)
recordMany(cd, n, predictedConfidence, actualOutcome, marketType) ==
    IF n = 0 THEN cd
    ELSE recordMany(recordOutcome(cd, predictedConfidence, actualOutcome, marketType),
                    n - 1, predictedConfidence, actualOutcome, marketType)

\* Ledgers that recordOutcome calls leave: none; a 'default' ledger of 25 samples whose
\* top bucket was always right and whose bottom bucket always wrong; an 'election'
\* ledger of 20 samples beside a 'default' ledger of one.
LedgerDefault ==
    recordMany(recordMany(recordMany(recordMany(EmptyMap,
        14, Num(Pct(95)), TRUE, "default"),
        6, Num(Pct(5)), FALSE, "default"),
        2, Num(Pct(100)), TRUE, "default"),
        3, Num(Pct(65)), TRUE, "default")
LedgerElection ==
    recordMany(recordMany(recordMany(EmptyMap,
        6, Num(Pct(55)), TRUE, "election"),
        14, Num(Pct(95)), FALSE, "election"),
        1, Num(Pct(65)), FALSE, "default")
Ledgers == {EmptyMap, LedgerDefault, LedgerElection}

\* The configurations the agents construct the skill with (the default, CryptoOracle's,
\* PoliticsAI's, PopCulture's), the default with calibration disabled, and one with
\* all three weights at 0.01
ScoringConfig(base, signal, history, calibration) ==
    [baseWeight |-> Pct(base), signalWeight |-> Pct(signal), historyWeight |-> Pct(history),
     calibrationEnabled |-> calibration, minSamplesForHistory |-> 10 * One]
ScoringConfigs ==
    {ScoringConfig(30, 40, 30, TRUE), ScoringConfig(30, 40, 35, TRUE),
     ScoringConfig(20, 40, 40, TRUE), ScoringConfig(30, 60, 10, TRUE),
     ScoringConfig(30, 40, 30, FALSE), ScoringConfig(1, 1, 1, TRUE)}

Predictions ==
    [rawConfidence : {Undefined} \cup {Num(Pct(h)) : h \in {5, 65, 100}},
     model : {"ensemble", "naive", "llm"},
     dataQuality : {Undefined, Num(0), Num(One)},
     marketType : {"undefined", "election"}]

Evidence(type, sentiment) == Signal(type, sentiment, Undefined, Undefined)
EvidenceLists ==
    { <<>>,
      <<Evidence("onchain", Undefined)>>,
      <<Evidence("news", Num(0)), Evidence("news", Num(Pct(10)))>>,
      <<Evidence("news", Num(One)), Evidence("social", Num(0 - One))>>,
      <<Evidence("news", Num(One)), Evidence("social", Num(One)), Evidence("onchain", Undefined)>>,
      <<Evidence("news", Num(One)), Evidence("social", Num(One)), Evidence("custom", Num(One))>> }
SignalObjects ==
    [signals : EvidenceLists,
     volatility : {Undefined} \cup {Num(Pct(h)) : h \in {60, 90}},
     liquidity : {Undefined, Num(5000 * One)}]

Performance(total, winRate, recentWinRate, pnl) ==
    [total |-> total, winRate |-> winRate, recentWinRate |-> recentWinRate, pnl |-> pnl]
Performances ==
    {Undefined, Performance(Num(50 * One), Num(0), Undefined, Num(0 - 10 * One))}
    \cup {Performance(Num(total * One), w, r, pnl) :
            total \in {5, 50},
            w \in {Num(Pct(60)), Num(One)}, r \in {Undefined, Num(One)},
            pnl \in {Num(0 - 10 * One), Num(10 * One)}}

InitConfidence ==
    /\ call \in [op : {"calculate"}, config : ScoringConfigs, prediction : Predictions,
                 signals : SignalObjects, performance : Performances]
    /\ ret = Pending
    /\ calibrationData \in Ledgers
    /\ outcomes = <<>>
    /\ cache = EmptyMap /\ now = 0 /\ inflight = EmptyMap /\ fetched = 0 /\ returned = <<>>
    /\ dryRun = Undefined /\ clients = {} /\ placed = <<>> /\ trades = <<>>
    /\ executed = <<>>
    /\ AgentIdle

Calculate ==
    /\ call.op = "calculate"
    /\ ret = Pending
    /\ ret' = Num(calculate(call.config, calibrationData, call.prediction, call.signals,
                            call.performance))
    /\ UNCHANGED <<call, StateVars>>

NextConfidence == Calculate

SpecConfidence == InitConfidence /\ [][NextConfidence]_vars

-----------------------------------------------------------------------------
(* SignalAggregationSkill.aggregate, its cache and clearCache: SpecAggregate *)

\* A string is modelled as the sequence of its parts between hyphens, so that
\* `${category}-${market.id}` is the concatenation of the two sequences.
cacheKey(category, market) == category \o market

\* One clock tick, in milliseconds
TickMs == 150 * 1000

\* config.cacheDuration, in ticks: 5 * 60 * 1000 ms
cacheDuration == (5 * 60 * 1000) \div TickMs

\* The last clock tick of a behaviour
MaxTime == 2

\* How many aggregate() and clearCache() calls a behaviour makes
MaxCalls == 3

Callers == {1, 2}
Categories == {<<"crypto">>, <<"politics">>}
Markets == {<<"eth">>}

\* config.weights of the default configuration
sourceWeight(source) == IF source = "news" THEN Num(Pct(40)) ELSE Num(Pct(30))

\* The configured sources, in the order aggregate() starts their fetches
sourcesOf(config) ==
    SelectSeq(<<"news", "social", "onchain">>,
              LAMBDA s : \E i \in 1..Len(config.sources) : config.sources[i] = s)

Fulfilled(value) == [status |-> "fulfilled", value |-> value]
Rejected == [status |-> "rejected", value |-> <<>>]

\* What the fetch of a source resolves to in the code as it stands: fetchNewsSignals
\* finds no item, fetchSocialSignals draws one signal with a random sentiment,
\* fetchOnChainSignals emits two signals for the crypto category and none otherwise
FetchResults(source, category) ==
    CASE source = "news" -> {Fulfilled(<<>>)}
      [] source = "social" ->
            {Fulfilled(<<Signal("social", s, Undefined, sourceWeight("social"))>>) :
                s \in {Num(0 - One), Num(Pct(60))}}
      [] source = "onchain" ->
            IF category # <<"crypto">> THEN {Fulfilled(<<>>)}
            ELSE {Fulfilled(<<Signal("onchain", Undefined, Num(0 - 20 * One), sourceWeight("onchain")),
                              Signal("onchain", Undefined, Num(30 * One), sourceWeight("onchain"))>>)}

\* How the promise of a source's fetch can settle once the source is a real feed: it
\* rejects, or it is fulfilled with the signals found
FetchOutcomes(source, category) ==
    {Rejected} \cup FetchResults(source, category) \cup
    (IF source = "news"
     THEN {Fulfilled(<<Signal("news", Num(Pct(80)), Undefined, sourceWeight("news"))>>)}
     ELSE {})

\* What Promise.allSettled can resolve to for a list of promises, the i-th of which
\* can settle as settlements[i] says
SettledResults(settlements) ==
    {r \in [1..Len(settlements) -> UNION {settlements[i] : i \in 1..Len(settlements)}] :
        \A i \in 1..Len(settlements) : r[i] \in settlements[i]}

\* The promises aggregate() awaits for this config and category as the code stands, and
\* with real feeds
fetches(config, category) ==
    [i \in 1..Len(sourcesOf(config)) |-> FetchResults(sourcesOf(config)[i], category)]

feedFetches(config, category) ==
    [i \in 1..Len(sourcesOf(config)) |-> FetchOutcomes(sourcesOf(config)[i], category)]

\* results.filter(r => r.status === 'fulfilled').map(r => r.value).flat()
RECURSIVE collectSignals(_)
collectSignals(results) ==
    IF results = <<>> THEN <<>>
    ELSE (IF Head(results).status = "fulfilled" THEN Head(results).value ELSE <<>>)
         \o collectSignals(Tail(results))

\* The await of the fetches as Promise.all would make it: rejected when a fetch rejects
aggregateResult_FailFast(results, time) ==
    IF \E i \in 1..Len(results) : results[i].status = "rejected"
    THEN [status |-> "rejected", data |-> Undefined]
    ELSE [status |-> "fulfilled",
          data |-> [signals |-> collectSignals(results),
                    score |-> calculateWeightedScore(collectSignals(results)),
                    timestamp |-> time,
                    sourceCount |-> Len(collectSignals(results))]]

\* What aggregate() settles to once Promise.allSettled resolved to results
aggregateResult(results, time) ==
    LET signals == collectSignals(results)
    IN [status |-> "fulfilled",
        data |-> [signals |-> signals,
                  score |-> calculateWeightedScore(signals),
                  timestamp |-> time,
                  sourceCount |-> Len(signals)]]

\* The cache lookup without the age test
cachedEntry_NoExpiry(key, time) == IF key \in DOMAIN cache THEN cache[key] ELSE Undefined

\* aggregate() without the cache lookup
cachedEntry_NoLookup(key, time) == Undefined

\* The cache lookup of aggregate(): the entry when it is served, Undefined on a miss
cachedEntry(key, time) ==
    IF key \in DOMAIN cache /\ time - cache[key].timestamp < cacheDuration
    THEN cache[key] ELSE Undefined

\* config.sources of the default configuration
AggregationConfigs == {[sources |-> <<"news", "social", "onchain">>]}

CallsMade == Len(returned) + Cardinality(DOMAIN inflight)

InitAggregate ==
    /\ call \in [op : {"aggregate"}, config : AggregationConfigs]
    /\ ret = Pending
    /\ calibrationData = EmptyMap
    /\ outcomes = <<>>
    /\ cache = EmptyMap /\ now = 0 /\ inflight = EmptyMap /\ fetched = 0 /\ returned = <<>>
    /\ dryRun = Undefined /\ clients = {} /\ placed = <<>> /\ trades = <<>>
    /\ executed = <<>>
    /\ AgentIdle

OtherVars ==
    <<call, ret, calibrationData, outcomes, dryRun, clients, placed, trades, executed, AgentVars>>

\* aggregate(market, category) up to its await: a cache hit returns the cached data,
\* a miss starts the fetch of every configured source.  A behaviour makes limit calls.
AggregateStart(caller, market, category, limit) ==
    /\ call.op = "aggregate"
    /\ caller \notin DOMAIN inflight
    /\ \A c \in Callers \ DOMAIN inflight : caller <= c
    /\ CallsMade < limit
    /\ LET key == cacheKey(category, market)
           cached == cachedEntry(key, now)
       IN IF cached # Undefined
          THEN /\ returned' = Append(returned,
                      [op |-> "aggregate", category |-> category, market |-> market,
                       key |-> key, hit |-> TRUE,
                       begun |-> Len(returned), at |-> now, fetches |-> 0,
                       status |-> "fulfilled", data |-> cached.data,
                       stored |-> cached.timestamp])
               /\ UNCHANGED <<cache, inflight, fetched>>
          ELSE /\ inflight' = [c \in DOMAIN inflight \cup {caller} |->
                                  IF c = caller
                                  THEN [key |-> key, category |-> category, market |-> market,
                                        begun |-> Len(returned), at |-> now]
                                  ELSE inflight[c]]
               /\ fetched' = fetched + Len(sourcesOf(call.config))
               /\ UNCHANGED <<cache, returned>>
    /\ UNCHANGED <<now, OtherVars>>

\* aggregate() from the point where Promise.allSettled resolves to results
AggregateFinish(caller, results) ==
    /\ caller \in DOMAIN inflight
    /\ Len(results) = Len(sourcesOf(call.config))
    /\ LET result == aggregateResult(results, now)
           key == inflight[caller].key
       IN /\ cache' = IF result.status = "fulfilled"
                      THEN [k \in DOMAIN cache \cup {key} |->
                               IF k = key THEN [data |-> result.data, timestamp |-> now]
                               ELSE cache[k]]
                      ELSE cache
          /\ returned' = Append(returned,
                 [op |-> "aggregate", category |-> inflight[caller].category,
                  market |-> inflight[caller].market, key |-> key, hit |-> FALSE,
                  begun |-> inflight[caller].begun, at |-> inflight[caller].at,
                  fetches |-> Len(results),
                  status |-> result.status, data |-> result.data,
                  stored |-> now])
    /\ inflight' = [c \in DOMAIN inflight \ {caller} |-> inflight[c]]
    /\ UNCHANGED <<now, fetched, OtherVars>>

\* clearCache() that leaves the entries in place
ClearCache_KeepsEntries ==
    /\ call.op = "aggregate"
    /\ CallsMade < MaxCalls
    /\ returned' = Append(returned, [op |-> "clearCache"])
    /\ UNCHANGED <<cache, now, inflight, fetched, OtherVars>>

\* clearCache()
ClearCache ==
    /\ call.op = "aggregate"
    /\ CallsMade < MaxCalls
    /\ cache' = EmptyMap
    /\ returned' = Append(returned, [op |-> "clearCache"])
    /\ UNCHANGED <<now, inflight, fetched, OtherVars>>

Tick ==
    /\ call.op = "aggregate"
    /\ now < MaxTime
    /\ now' = now + 1
    /\ UNCHANGED <<cache, inflight, fetched, returned, OtherVars>>

NextAggregate ==
    \/ \E c \in Callers, m \in Markets, cat \in Categories : AggregateStart(c, m, cat, MaxCalls)
    \/ \E c \in DOMAIN inflight :
          \E r \in SettledResults(fetches(call.config, inflight[c].category)) :
              AggregateFinish(c, r)
    \/ ClearCache
    \/ Tick

SpecAggregate == InitAggregate /\ [][NextAggregate]_vars

\* Up to two aggregate() calls per behaviour, over every configuration of the sources
\* and every way their fetches can settle: SpecSettle
SourceConfigs ==
    {[sources |-> <<"news", "social", "onchain">>], [sources |-> <<"onchain", "social", "news">>],
     [sources |-> <<"news", "social">>], [sources |-> <<"onchain">>], [sources |-> <<>>]}

InitSettle ==
    /\ call \in [op : {"aggregate"}, config : SourceConfigs]
    /\ ret = Pending
    /\ calibrationData = EmptyMap
    /\ outcomes = <<>>
    /\ cache = EmptyMap /\ now = 0 /\ inflight = EmptyMap /\ fetched = 0 /\ returned = <<>>
    /\ dryRun = Undefined /\ clients = {} /\ placed = <<>> /\ trades = <<>>
    /\ executed = <<>>
    /\ AgentIdle

NextSettle ==
    \/ \E c \in Callers, m \in Markets, cat \in Categories : AggregateStart(c, m, cat, 2)
    \/ \E c \in DOMAIN inflight :
          \E r \in SettledResults(feedFetches(call.config, inflight[c].category)) :
              AggregateFinish(c, r)

SpecSettle == InitSettle /\ [][NextSettle]_vars

-----------------------------------------------------------------------------
(* ExecutionSkill and BaseAgent.execute: SpecExecute *)

\* How many ExecutionSkill.execute() calls a behaviour makes
MaxExecutes == 2

\* The platform key of the config given to new ExecutionSkill(config); "absent" when
\* the config has no such key
Platforms == {"absent", "kalshi", "both"}

\* The dryRun key of that config: absent, true, false, undefined, null, 0, '', 'false'
DryRunOptions ==
    {Absent, Bool(TRUE), Bool(FALSE), Undefined, Null, Num(0), Str(0), Str(5)}

\* this.config of ExecutionSkill after the constructor: each default is computed with
\* ||, then ...config copies every key the given config has over it
ExecutionSkillConfig(config) ==
    [platform |-> IF config.platform = "absent" THEN "polymarket" ELSE config.platform,
     dryRun |-> IF config.dryRun = Absent
                THEN OrElse(Get(config.dryRun), Bool(TRUE))
                ELSE config.dryRun,
     bankroll |-> Get(config.bankroll)]

\* this.config of BaseAgent after the constructor
BaseAgentConfig(config) ==
    [minConfidence |-> IF config.minConfidence = Absent
                       THEN OrElse(Get(config.minConfidence), Num(Pct(65)))
                       ELSE config.minConfidence,
     maxBetSize |-> IF config.maxBetSize = Absent
                    THEN OrElse(Get(config.maxBetSize), Num(100 * One))
                    ELSE config.maxBetSize]

\* ExecutionSkill.init(): the platforms that get a client
clientsOf(platform) ==
    (IF platform \in {"polymarket", "both"} THEN {"polymarket"} ELSE {})
        \cup (IF platform \in {"kalshi", "both"} THEN {"kalshi"} ELSE {})

\* selectPlatform that sends only politics to kalshi
selectPlatform_PoliticsOnly(config, prediction) ==
    IF config.platform # "both" THEN config.platform
    ELSE IF prediction.category = "politics" THEN "kalshi"
    ELSE "polymarket"

\* selectPlatform(prediction) of a skill with this config
selectPlatform(config, prediction) ==
    IF config.platform # "both" THEN config.platform
    ELSE IF prediction.category = "crypto" THEN "polymarket"
    ELSE IF prediction.category \in {"politics", "sports"} THEN "kalshi"
    ELSE "polymarket"

Trade(status, platform, size, price) ==
    [status |-> status, platform |-> platform, size |-> size, price |-> price]

\* execute() threw
Threw == Trade("threw", "", Undefined, Undefined)

createDryRunTrade(prediction, platform, size) ==
    Trade("dry_run", platform, size, OrElse(prediction.marketPrice, Num(Pct(50))))

\* ExecutionSkill.execute(prediction) of a skill with this config, attached to an agent
\* with this maxBetSize, holding clients for these platforms: the trade it returns and
\* the orders it hands to placeOrder, which resolves (filled) or throws
execute(config, maxBetSize, platforms, prediction, filled) ==
    LET platform == selectPlatform(config, prediction)
        size == calculatePositionSize(prediction.confidence, prediction.marketPrice,
                                      config.bankroll, maxBetSize)
    IN IF platform \notin platforms THEN [trade |-> Threw, orders |-> <<>>]
       ELSE IF Truthy(config.dryRun)
            THEN [trade |-> createDryRunTrade(prediction, platform, size), orders |-> <<>>]
       ELSE [trade |-> IF filled THEN Trade("executed", platform, size, Num(Pct(95)))
                       ELSE Trade("failed", platform, size, Undefined),
             orders |-> <<[platform |-> platform, size |-> size]>>]

\* BaseAgent.execute without its confidence test
belowThreshold_Never(prediction, config) == FALSE

\* prediction.confidence < this.config.minConfidence
belowThreshold(prediction, config) == JLess(prediction.confidence, config.minConfidence)

ExecutePredictions ==
    [confidence : {Num(Pct(50)), Num(Pct(80)), Undefined},
     marketPrice : {Num(Pct(60))},
     category : {"crypto", "politics"}]

InitExecute ==
    /\ call \in [op : {"execute"},
                 skill : [platform : Platforms, dryRun : DryRunOptions, bankroll : {Absent}],
                 agent : [minConfidence : {Absent, Num(Pct(70)), Undefined},
                          maxBetSize : {Absent}],
                 used : BOOLEAN]
    /\ ret = Pending
    /\ calibrationData = EmptyMap
    /\ outcomes = <<>>
    /\ cache = EmptyMap /\ now = 0 /\ inflight = EmptyMap /\ fetched = 0 /\ returned = <<>>
    /\ dryRun = ExecutionSkillConfig(call.skill).dryRun
    /\ clients = {}
    /\ placed = <<>> /\ trades = <<>> /\ executed = <<>>
    /\ AgentIdle

ExecuteFrame ==
    <<call, calibrationData, outcomes, cache, now, inflight, fetched, returned, dryRun, AgentVars>>

\* ExecutionSkill.init()
SkillInit ==
    /\ call.op = "execute"
    /\ clients' = clients \cup clientsOf(ExecutionSkillConfig(call.skill).platform)
    /\ UNCHANGED <<ret, placed, trades, executed, ExecuteFrame>>

\* The skill's config as execute() reads it
SkillConfig == [ExecutionSkillConfig(call.skill) EXCEPT !.dryRun = dryRun]

\* ExecutionSkill.execute(prediction), called on the skill itself
SkillExecute(prediction, filled) ==
    /\ call.op = "execute"
    /\ Len(executed) < MaxExecutes
    /\ LET done == execute(SkillConfig, BaseAgentConfig(call.agent).maxBetSize, clients,
                           prediction, filled)
       IN /\ ret' = done.trade
          /\ executed' = Append(executed, done.trade)
          /\ placed' = placed \o done.orders
    /\ UNCHANGED <<clients, trades, ExecuteFrame>>

\* BaseAgent.execute(prediction)
AgentExecute(prediction, filled) ==
    /\ call.op = "execute"
    /\ Len(executed) < MaxExecutes
    /\ IF belowThreshold(prediction, BaseAgentConfig(call.agent))
       THEN /\ ret' = Null
            /\ UNCHANGED <<placed, trades, executed>>
       ELSE IF ~call.used
       THEN /\ ret' = Threw
            /\ UNCHANGED <<placed, trades, executed>>
       ELSE LET done == execute(SkillConfig, BaseAgentConfig(call.agent).maxBetSize,
                                clients, prediction, filled)
            IN /\ ret' = done.trade
               /\ executed' = Append(executed, done.trade)
               /\ placed' = placed \o done.orders
               /\ trades' = IF done.trade = Threw THEN trades
                            ELSE Append(trades, done.trade)
    /\ UNCHANGED <<clients, ExecuteFrame>>

NextExecute ==
    \/ SkillInit
    \/ \E p \in ExecutePredictions, filled \in BOOLEAN : SkillExecute(p, filled)
    \/ \E p \in ExecutePredictions, filled \in BOOLEAN : AgentExecute(p, filled)

SpecExecute == InitExecute /\ [][NextExecute]_vars

-----------------------------------------------------------------------------
(* Properties of calculatePositionSize, checked under SpecSizer *)

SizerDone == call.op = "calculatePositionSize" /\ ret # Pending

\* The preconditions of calculatePositionSize: a confidence in [0,1], a market price
\* strictly between 0 and 1, a positive bankroll and a positive maximum bet size.
ValidSizing ==
    /\ IsNum(call.confidence) /\ 0 <= call.confidence.v /\ call.confidence.v <= One
    /\ IsNum(call.marketPrice) /\ 0 < call.marketPrice.v /\ call.marketPrice.v < One
    /\ IsNum(call.bankroll) /\ call.bankroll.v > 0
    /\ IsNum(call.maxBetSize) /\ call.maxBetSize.v > 0

\* A market price given as a number outside (0,1), or a bankroll given as a number <= 0
InvalidSizing ==
    \/ IsNum(call.marketPrice) /\ (call.marketPrice.v <= 0 \/ call.marketPrice.v >= One)
    \/ IsNum(call.bankroll) /\ call.bankroll.v <= 0

C3_InvalidInputRejected ==
    (SizerDone /\ InvalidSizing) => ret.t = "error"

-----------------------------------------------------------------------------
(* Properties of calculateWeightedScore, checked under SpecScore *)

ScoreDone == call.op = "calculateWeightedScore" /\ ret # Pending

\* C4: for every list of signals the score is a number in [0,1], and for the empty
\* list it is exactly 0.5.
C4_ScoreInUnitInterval ==
    ScoreDone =>
        /\ IsNum(ret) /\ 0 <= ret.v /\ ret.v <= One
        /\ Len(call.signals) = 0 => ret = Num(Pct(50))

-----------------------------------------------------------------------------
(* Properties of calculate, checked under SpecConfidence *)

CalculateDone == call.op = "calculate" /\ ret # Pending

\* C1: for every prediction, signals object, performance history and ledger,
\* calculate returns a value in the closed interval [0.01, 0.99].
C1_ConfidenceClamped ==
    CalculateDone => IsNum(ret) /\ Pct(1) <= ret.v /\ ret.v <= Pct(99)

\* A call whose combined confidence exceeds 0.99 and is returned as 0.99
C1_Witness ==
    /\ CalculateDone
    /\ combinedConfidence(call.config, calibrationData, call.prediction, call.signals,
                          call.performance) > Pct(99)
    /\ ret = Num(Pct(99))

-----------------------------------------------------------------------------
(* Properties of the calibration ledger, checked under SpecLedger *)

\* The logged recordOutcome calls for market type m
OutcomesOf(m) == SelectSeq(outcomes, LAMBDA o : o.marketType = m)

\* k / 10 <= confidence < (k + 1) / 10
InBucket(confidence, k) == k * One <= confidence.v * 10 /\ confidence.v * 10 < (k + 1) * One

\* The logged recordOutcome calls for market type m whose confidence lies in bucket k
OutcomesIn(m, k) ==
    SelectSeq(outcomes, LAMBDA o : o.marketType = m /\ InBucket(o.predictedConfidence, k))

CorrectIn(m, k) == SelectSeq(OutcomesIn(m, k), LAMBDA o : o.actualOutcome)

BucketKeys == 0..10

RECURSIVE SumSamples(_)
SumSamples(buckets) ==
    IF DOMAIN buckets = {} THEN 0
    ELSE LET k == CHOOSE x \in DOMAIN buckets : TRUE
         IN buckets[k].samples + SumSamples([x \in DOMAIN buckets \ {k} |-> buckets[x]])

\* C9: after any sequence of recordOutcome calls every bucket has correct <= samples and
\* an accuracy in [0,1], and a bucket that received only correct outcomes has accuracy
\* exactly 1.0.
C9_AccuracyInUnitInterval ==
    \A m \in DOMAIN calibrationData : \A k \in DOMAIN calibrationData[m].buckets :
        LET b == calibrationData[m].buckets[k]
        IN /\ 0 <= b.correct /\ b.correct <= b.samples
           /\ 0 <= b.accuracy /\ b.accuracy <= One
           /\ (Len(OutcomesIn(m, k)) > 0 /\ Len(CorrectIn(m, k)) = Len(OutcomesIn(m, k)))
                  => b.accuracy = One

\* A bucket that received only correct outcomes, three of them, beside a bucket of the
\* same market type that received a wrong one
C9_Witness ==
    \E m \in DOMAIN calibrationData : \E k, j \in DOMAIN calibrationData[m].buckets :
        /\ Len(OutcomesIn(m, k)) = 3 /\ Len(CorrectIn(m, k)) = 3
        /\ calibrationData[m].buckets[k].accuracy = One
        /\ calibrationData[m].buckets[j].accuracy = 0

\* C10: every recordOutcome call adds 1 to its market type's total and to the samples of
\* the one bucket containing its confidence, adds 1 to that bucket's correct counter iff
\* the outcome was correct, sets the accuracy to correct / samples and changes no other
\* counter: each counter equals the number of calls that were to increase it, and a
\* market type's total equals the sum of its buckets' samples.
C10_CountersMatchCalls ==
    /\ \A m \in MarketTypes :
          IF Len(OutcomesOf(m)) = 0 THEN m \notin DOMAIN calibrationData
          ELSE /\ m \in DOMAIN calibrationData
               /\ calibrationData[m].samples = Len(OutcomesOf(m))
               /\ calibrationData[m].samples = SumSamples(calibrationData[m].buckets)
               /\ \A k \in BucketKeys :
                     IF Len(OutcomesIn(m, k)) = 0
                     THEN k \notin DOMAIN calibrationData[m].buckets
                     ELSE /\ k \in DOMAIN calibrationData[m].buckets
                          /\ calibrationData[m].buckets[k].samples = Len(OutcomesIn(m, k))
                          /\ calibrationData[m].buckets[k].correct = Len(CorrectIn(m, k))
                          /\ calibrationData[m].buckets[k].accuracy =
                                 Round(Len(CorrectIn(m, k)) * One, Len(OutcomesIn(m, k)))
    /\ DOMAIN calibrationData \subseteq MarketTypes
    /\ \A m \in DOMAIN calibrationData : DOMAIN calibrationData[m].buckets \subseteq BucketKeys

\* Two market types with samples, one of them with two buckets, and a bucket with both
\* a correct and a wrong outcome
C10_Witness ==
    /\ DOMAIN calibrationData = MarketTypes
    /\ \E m \in MarketTypes :
          /\ Cardinality(DOMAIN calibrationData[m].buckets) = 2
          /\ \E k \in DOMAIN calibrationData[m].buckets :
                /\ calibrationData[m].buckets[k].samples = 2
                /\ calibrationData[m].buckets[k].correct = 1

-----------------------------------------------------------------------------
(* Properties of aggregate and its cache, checked under SpecAggregate *)

IsAggregate(i) == returned[i].op = "aggregate"

\* Call j was made for the key of call i, after call i returned, within the TTL window
\* of the entry call i returned, with no clearCache between the two calls
Repeats(i, j) ==
    /\ i < j /\ IsAggregate(i) /\ IsAggregate(j)
    /\ returned[j].key = returned[i].key
    /\ returned[j].begun >= i
    /\ returned[j].at - returned[i].stored < cacheDuration
    /\ \A k \in (i + 1)..returned[j].begun : returned[k].op # "clearCache"

\* No other aggregate() call for the key of call i stored a result between the return
\* of call i and the start of call j
NoStoreBetween(i, j) ==
    \A k \in (i + 1)..returned[j].begun :
        ~(IsAggregate(k) /\ returned[k].key = returned[i].key /\ ~returned[k].hit)

SameResult(i, j) == returned[j].data = returned[i].data /\ returned[j].fetches = 0

\* C5 as stated: two aggregate calls for the same market and category, the second made
\* after the first completed, within the TTL window and with no clearCache in between,
\* return identical results and the second issues no source fetch.
C5_RepeatReturnsSameResult ==
    \A i, j \in 1..Len(returned) : Repeats(i, j) => SameResult(i, j)

\* C5: two aggregate calls for the same market and category, the second made after the
\* first completed, within the TTL window, with no clearCache in between and with no
\* other aggregate call for that key storing its result in between, return identical
\* results and the second issues no source fetch.
C5_RepeatReturnsSameResultUnlessOverwritten ==
    \A i, j \in 1..Len(returned) :
        (Repeats(i, j) /\ NoStoreBetween(i, j)) => SameResult(i, j)

\* A call that fetched, then a later call for its key one tick on that was served the
\* stored result without a fetch
C5_Witness ==
    \E i, j \in 1..Len(returned) :
        /\ Repeats(i, j) /\ NoStoreBetween(i, j)
        /\ ~returned[i].hit /\ returned[i].fetches = 3
        /\ returned[j].hit /\ returned[j].at > returned[i].stored
        /\ SameResult(i, j)

-----------------------------------------------------------------------------
(* Properties of aggregate under failing sources, checked under SpecSettle *)

\* The signals of a source among the settled fetches: none when the source is not
\* configured or its fetch rejected
signalsOf(source, sources, results) ==
    IF \E i \in 1..Len(sources) : sources[i] = source /\ results[i].status = "fulfilled"
    THEN results[CHOOSE i \in 1..Len(sources) : sources[i] = source].value
    ELSE <<>>

LastReturned == returned'[Len(returned')]

\* C6: whichever of the configured sources reject, aggregate resolves, its signals are
\* the concatenation of the fulfilled sources' signal lists in the order news, social,
\* onchain, sourceCount is their number, and when no source delivers a signal the result
\* is the neutral one (signals empty, score 0.5, sourceCount 0).
C6_SettlesDespiteRejections ==
    [][\A c \in DOMAIN inflight :
          \A r \in SettledResults(feedFetches(call.config, inflight[c].category)) :
              AggregateFinish(c, r) =>
                  LET sources == sourcesOf(call.config)
                      expected == signalsOf("news", sources, r) \o signalsOf("social", sources, r)
                                      \o signalsOf("onchain", sources, r)
                  IN /\ LastReturned.status = "fulfilled"
                     /\ LastReturned.data.signals = expected
                     /\ LastReturned.data.sourceCount = Len(expected)
                     /\ expected = <<>> => LastReturned.data.score = Num(Pct(50))
                     /\ c \notin DOMAIN inflight']_vars

\* A crypto aggregation over the three sources that returned the neutral result (every
\* fetch rejected or was empty), and one that returned the two on-chain signals alone
\* (the social fetch rejected)
C6_Witness ==
    /\ Len(sourcesOf(call.config)) = 3
    /\ \E i, j \in 1..Len(returned) :
          /\ returned[i].key = <<"crypto", "eth">> /\ returned[i].fetches = 3
          /\ returned[i].data.signals = <<>> /\ returned[i].data.score = Num(Pct(50))
          /\ returned[i].data.sourceCount = 0
          /\ returned[j].key = <<"crypto", "eth">> /\ returned[j].fetches = 3
          /\ Len(returned[j].data.signals) = 2
          /\ \A n \in 1..2 : returned[j].data.signals[n].type = "onchain"

-----------------------------------------------------------------------------
(* Properties of ExecutionSkill.execute and BaseAgent.execute, checked under SpecExecute *)

\* C7: an order reaches placeOrder only when the skill was configured with dryRun set
\* to false; in every other configuration (dryRun absent, true, or any other value)
\* every execute that returns a trade returns one with status 'dry_run', and placeOrder
\* is never called.
C7_DryRunUnlessFalse ==
    (call.op = "execute" /\ call.skill.dryRun # Bool(FALSE)) =>
        /\ placed = <<>>
        /\ \A i \in 1..Len(executed) : executed[i] # Threw => executed[i].status = "dry_run"

\* prediction.confidence and the agent's minConfidence are numbers, the first below
\* the second
Below(prediction) ==
    LET minConfidence == BaseAgentConfig(call.agent).minConfidence
    IN /\ IsNum(prediction.confidence) /\ IsNum(minConfidence)
       /\ prediction.confidence.v < minConfidence.v

\* C8: for every prediction whose confidence is below the agent's minConfidence,
\* BaseAgent.execute returns null, does not invoke the execution skill (no execute call,
\* no order placed) and leaves state.trades unchanged.
C8_NoTradeBelowThreshold ==
    [][\A p \in ExecutePredictions, filled \in BOOLEAN :
          (AgentExecute(p, filled) /\ Below(p)) =>
              /\ ret' = Null
              /\ UNCHANGED <<executed, placed, trades>>]_vars

\* An agent with a registered, initialised execution skill that traded once and then
\* returned null
C8_Witness ==
    /\ call.op = "execute" /\ call.used /\ clients # {}
    /\ Len(trades) = 1 /\ Len(executed) = 1
    /\ ret = Null

-----------------------------------------------------------------------------
(* Further properties of the calibration ledger, checked under SpecLedger *)

\* The bucket keys 0.0, 0.1, ..., 0.9, in tenths
DecileKeys == 0..9

\* samples of bucket k of market type m in ledger cd, 0 when there is no such bucket
SamplesOf(cd, m, k) ==
    IF m \in DOMAIN cd /\ k \in DOMAIN cd[m].buckets THEN cd[m].buckets[k].samples ELSE 0

\* C11: after any sequence of recordOutcome calls with confidences in [0,1], every market
\* type's ledger holds at most 10 buckets, all with keys among 0.0, 0.1, ..., 0.9, and
\* no sample counter ever decreases.
C11_TenBucketsAtMost ==
    /\ [](\A m \in DOMAIN calibrationData :
              /\ Cardinality(DOMAIN calibrationData[m].buckets) <= 10
              /\ DOMAIN calibrationData[m].buckets \subseteq DecileKeys)
    /\ [][\A m \in MarketTypes :
              /\ m \in DOMAIN calibrationData =>
                     /\ m \in DOMAIN calibrationData'
                     /\ calibrationData'[m].samples >= calibrationData[m].samples
              /\ \A k \in BucketKeys :
                     SamplesOf(calibrationData', m, k) >= SamplesOf(calibrationData, m, k)]_vars

-----------------------------------------------------------------------------
(* recordOutcome and calculate called by concurrent asynchronous callers: SpecCallers *)

\* A caller is an async function that, once resumed from an await, calls recordOutcome.
\* recordOutcome and calculate contain no await: each call runs to completion before any
\* other callback runs.

\* The confidences the callers report: both fall into the bucket of 0.3
CallerConfidences == {Num(Pct(h)) : h \in {35, 38}}

\* The calculate() call made between the recordOutcome calls
ReaderConfig == ScoringConfig(30, 40, 30, TRUE)
ReaderPrediction ==
    [rawConfidence |-> Num(Pct(35)), model |-> "ensemble", dataQuality |-> Undefined,
     marketType |-> "undefined"]
ReaderSignals == [signals |-> <<>>, volatility |-> Undefined, liquidity |-> Undefined]
ReaderPerformance == Performance(Num(50 * One), Num(Pct(60)), Undefined, Num(10 * One))

\* The ledger that the logged recordOutcome calls leave
RECURSIVE replay(_)
replay(log) ==
    IF log = <<>> THEN EmptyMap
    ELSE LET o == log[Len(log)]
         IN recordOutcome(replay(SubSeq(log, 1, Len(log) - 1)),
                          o.predictedConfidence, o.actualOutcome, o.marketType)

\* A call that works on the ledger as it was before the latest completed call
ledgerRead_Stale == replay(SubSeq(outcomes, 1, Len(outcomes) - 1))

\* this.calibrationData as a call reads it
ledgerRead == calibrationData

InitCallers ==
    /\ call = [op |-> "callers"]
    /\ ret = Pending
    /\ calibrationData = EmptyMap
    /\ outcomes = <<>>
    /\ cache = EmptyMap /\ now = 0 /\ inflight = EmptyMap /\ fetched = 0 /\ returned = <<>>
    /\ dryRun = Undefined /\ clients = {} /\ placed = <<>> /\ trades = <<>>
    /\ executed = <<>>
    /\ AgentIdle

CallersFrame ==
    <<call, cache, now, fetched, returned, dryRun, clients, placed, trades, executed, AgentVars>>

\* A caller suspends at an await, about to report an outcome
CallerAwait(caller, predictedConfidence, actualOutcome, marketType) ==
    /\ call.op = "callers"
    /\ caller \notin DOMAIN inflight
    /\ \A c \in Callers \ DOMAIN inflight : caller <= c
    /\ Len(outcomes) + Cardinality(DOMAIN inflight) < MaxOutcomes
    /\ inflight' = [c \in DOMAIN inflight \cup {caller} |->
                       IF c = caller
                       THEN [predictedConfidence |-> predictedConfidence,
                             actualOutcome |-> actualOutcome, marketType |-> marketType,
                             begun |-> Len(outcomes)]
                       ELSE inflight[c]]
    /\ UNCHANGED <<ret, calibrationData, outcomes, CallersFrame>>

\* The caller is resumed and calls recordOutcome
CallerRecord(caller) ==
    /\ call.op = "callers"
    /\ caller \in DOMAIN inflight
    /\ calibrationData' =
           recordOutcome(ledgerRead, inflight[caller].predictedConfidence,
                         inflight[caller].actualOutcome, inflight[caller].marketType)
    /\ outcomes' = Append(outcomes, inflight[caller])
    /\ inflight' = [c \in DOMAIN inflight \ {caller} |-> inflight[c]]
    /\ UNCHANGED <<ret, CallersFrame>>

\* Another callback calls calculate
CallerCalculate ==
    /\ call.op = "callers"
    /\ ret' = Num(calculate(ReaderConfig, ledgerRead, ReaderPrediction, ReaderSignals,
                            ReaderPerformance))
    /\ UNCHANGED <<calibrationData, outcomes, inflight, CallersFrame>>

NextCallers ==
    \/ \E caller \in Callers, c \in CallerConfidences, ok \in BOOLEAN :
           CallerAwait(caller, c, ok, "default")
    \/ \E caller \in DOMAIN inflight : CallerRecord(caller)
    \/ CallerCalculate

SpecCallers == InitCallers /\ [][NextCallers]_vars

-----------------------------------------------------------------------------
(* Properties of the ledger under concurrent callers, checked under SpecCallers *)

\* C12: for any interleaving of callers that invoke recordOutcome (and calculate) on one
\* market type and bucket, once k recordOutcome calls have completed the bucket's
\* samples and the market type's total have each grown by exactly k: no increment is
\* lost.
C12_NoLostIncrement ==
    \A m \in MarketTypes :
        /\ (IF m \in DOMAIN calibrationData THEN calibrationData[m].samples ELSE 0)
               = Len(OutcomesOf(m))
        /\ \A k \in BucketKeys : SamplesOf(calibrationData, m, k) = Len(OutcomesIn(m, k))

\* Two callers were suspended together before either called recordOutcome, both
\* reported into one bucket, a calculate ran on the ledger, and the bucket counts both
C12_Witness ==
    /\ Len(outcomes) >= 2
    /\ outcomes[1].begun = 0 /\ outcomes[2].begun = 0
    /\ bucketOf(outcomes[1].predictedConfidence) = bucketOf(outcomes[2].predictedConfidence)
    /\ outcomes[1].predictedConfidence # outcomes[2].predictedConfidence
    /\ ret # Pending
    /\ SamplesOf(calibrationData, "default", bucketOf(outcomes[1].predictedConfidence)) >= 2

-----------------------------------------------------------------------------
(* Properties of clearCache, checked under SpecAggregate *)

\* Call j is an aggregate call begun after the clearCache call c
BegunAfter(c, j) ==
    /\ returned[c].op = "clearCache" /\ IsAggregate(j) /\ returned[j].begun >= c

\* Call j is the next aggregate call for its key after the clearCache call c: no call
\* for that key begun after c returned before j began
NextAfterClear(c, j) ==
    /\ BegunAfter(c, j)
    /\ \A k \in (c + 1)..returned[j].begun :
           ~(IsAggregate(k) /\ returned[k].key = returned[j].key /\ returned[k].begun >= c)

\* No aggregate call for the key of call j that was in flight or begun after the
\* clearCache call c stored a result before j began
NoRefillBefore(c, j) ==
    \A k \in (c + 1)..returned[j].begun :
        ~(IsAggregate(k) /\ returned[k].key = returned[j].key /\ ~returned[k].hit)

\* Call j fetched from every configured source and, while it is the latest call, the
\* cache holds what it returned
FetchedAndStored(j) ==
    /\ ~returned[j].hit
    /\ returned[j].fetches = Len(sourcesOf(call.config))
    /\ j = Len(returned) =>
           /\ returned[j].key \in DOMAIN cache
           /\ cache[returned[j].key] =
                  [data |-> returned[j].data, timestamp |-> returned[j].stored]

\* C13 as stated: after clearCache, the next aggregate call for any key does not return
\* a cached entry but issues fresh source fetches and stores a new entry.
C13_NextCallFetchesAfterClear ==
    \A c, j \in 1..Len(returned) : NextAfterClear(c, j) => FetchedAndStored(j)

\* C13: after clearCache, the next aggregate call for any key, provided no aggregate
\* call for that key that was in flight during clearCache has stored its result in the
\* meantime, does not return a cached entry but issues fresh source fetches and stores
\* a new entry.
C13_NextCallFetchesAfterClearUnlessRefilled ==
    \A c, j \in 1..Len(returned) :
        (NextAfterClear(c, j) /\ NoRefillBefore(c, j)) => FetchedAndStored(j)

\* A key was cached, clearCache was called in the same tick, and the next call for the
\* key, still in that tick, fetched again
C13_Witness ==
    \E i, c, j \in 1..Len(returned) :
        /\ i < c /\ IsAggregate(i) /\ ~returned[i].hit
        /\ NextAfterClear(c, j) /\ NoRefillBefore(c, j)
        /\ returned[j].key = returned[i].key
        /\ returned[j].at = returned[i].stored
        /\ FetchedAndStored(j)

-----------------------------------------------------------------------------
(* The sizing scenario, checked under SpecSizer *)

\* calculatePositionSize({confidence: 0.7, marketPrice: 0.55}) with bankroll 1000 and
\* maxBetSize 1000 has returned
ScenarioSized ==
    /\ SizerDone
    /\ call.confidence = Num(Pct(70)) /\ call.marketPrice = Num(Pct(55))
    /\ call.bankroll = Num(1000 * One) /\ call.maxBetSize = Num(1000 * One)

\* x is the number v, give or take tolerance
About(x, v, tolerance) == IsNum(x) /\ Abs(x.v - v) <= tolerance

\* The fixed-point number of a decimal given in thousandths: Mil(474) is 0.474
Mil(n) == (n * One) \div 1000

\* C14 as stated: for confidence 0.7, marketPrice 0.55, bankroll 1000 and maxBetSize
\* 1000 the full Kelly fraction is about 0.474 and the size returned about 118.5, at
\* most 1000.
C14_ScenarioSize118 ==
    ScenarioSized =>
        /\ About(kellyOf(call.confidence, call.marketPrice), Mil(474), Mil(5))
        /\ About(ret, Mil(118500), Mil(500))
        /\ ret.v <= 1000 * One

\* C14: for confidence 0.7, marketPrice 0.55, bankroll 1000 and maxBetSize 1000 the
\* full Kelly fraction is about 0.333 (with b = 1/0.55 - 1, about 0.818) and the size
\* returned about 83.3, at most 1000.
C14_ScenarioSize83 ==
    ScenarioSized =>
        /\ About(kellyOf(call.confidence, call.marketPrice), Mil(333), Mil(5))
        /\ About(ret, Mil(83300), Mil(500))
        /\ ret.v <= 1000 * One

\* The scenario's call has returned, a size between its Kelly bounds
C14_Witness ==
    ScenarioSized /\ IsNum(ret) /\ ret.v > 80 * One /\ ret.v < 90 * One

-----------------------------------------------------------------------------
(* Properties of the history component, checked under SpecConfidence *)

\* The performance history is absent, or its total is a number below
\* minSamplesForHistory
ThinHistory ==
    \/ call.performance = Undefined
    \/ /\ IsNum(call.performance.total)
       /\ call.performance.total.v < call.config.minSamplesForHistory

HistoryComponent ==
    calculateHistoryConfidence(call.config, calibrationData, call.performance,
                               call.prediction)

\* C15: whenever the performance history is absent or its total is below
\* minSamplesForHistory (10), the history component of the confidence is exactly 0.5,
\* whatever the winRate, recentWinRate, pnl and ledger contents.
C15_ThinHistoryIsNeutral ==
    (CalculateDone /\ ThinHistory) => HistoryComponent = Pct(50)

\* A calculate call with a history of 5 predictions, all won, at a loss, whose raw
\* confidence has a bucket in the ledger
C15_Witness ==
    /\ CalculateDone /\ call.performance # Undefined
    /\ call.performance.total = Num(5 * One)
    /\ call.performance.winRate = Num(One)
    /\ call.performance.pnl = Num(0 - 10 * One)
    /\ getCalibrationForConfidence(calibrationData, call.prediction.rawConfidence) # Undefined
    /\ HistoryComponent = Pct(50)

-----------------------------------------------------------------------------
(* BaseAgent.use: SpecUse *)

\* A skill object: its identity, its name ("" when it has none) and whether it has an
\* attach method
SkillObject(id, name, hasAttach) == [id |-> id, name |-> name, hasAttach |-> hasAttach]

\* The skills handed to use(): the three skill classes, a second instance of two of
\* them, a plain object with a name and no attach method, and skills without a name
SkillObjects ==
    {SkillObject("aggregation#1", "aggregation", TRUE),
     SkillObject("aggregation#2", "aggregation", TRUE),
     SkillObject("scoring#1", "scoring", TRUE),
     SkillObject("execution#1", "execution", TRUE),
     SkillObject("execution#2", "execution", TRUE),
     SkillObject("custom#1", "custom", FALSE),
     SkillObject("custom#2", "custom", TRUE),
     SkillObject("nameless#1", "", TRUE),
     SkillObject("nameless#2", "", FALSE)}

\* use() that keeps the skill already registered under the name
use_KeepFirst(registry, skill) ==
    [n \in DOMAIN registry \cup {skill.name} |->
        IF n \in DOMAIN registry THEN registry[n] ELSE skill.id]

\* this.skills.set(skill.name, skill)
use(registry, skill) ==
    [n \in DOMAIN registry \cup {skill.name} |->
        IF n = skill.name THEN skill.id ELSE registry[n]]

InitUse ==
    /\ call = [op |-> "use"]
    /\ ret = Pending
    /\ Idle

\* BaseAgent.use(skill)
Use(skill) ==
    /\ call.op = "use"
    /\ IF skill.name = ""
       THEN /\ ret' = [skill |-> skill.id, threw |-> TRUE]
            /\ UNCHANGED <<skills, attached>>
       ELSE /\ skills' = use(skills, skill)
            /\ attached' = IF skill.hasAttach THEN attached \cup {skill.id} ELSE attached
            /\ ret' = [skill |-> skill.id, threw |-> FALSE]
    /\ UNCHANGED <<call, calibrationData, outcomes, cache, now, inflight, fetched, returned,
                   dryRun, clients, placed, trades, executed, OrchestratorVars, RecordVars,
                   RegistryVars>>

NextUse == \E skill \in SkillObjects : Use(skill)

SpecUse == InitUse /\ [][NextUse]_vars

-----------------------------------------------------------------------------
(* Properties of BaseAgent.use, checked under SpecUse *)

\* use(skill) with a named skill returned, the skill is registered under its name and
\* every other name keeps its skill
Registered(skill) ==
    /\ ~ret'.threw
    /\ skill.name \in DOMAIN skills' /\ skills'[skill.name] = skill.id
    /\ DOMAIN skills' = DOMAIN skills \cup {skill.name}
    /\ \A n \in DOMAIN skills \ {skill.name} : skills'[n] = skills[n]

\* use(skill) with a nameless skill threw and left the registry as it was
Refused == ret'.threw /\ UNCHANGED <<skills, attached>>

\* C16 as stated: after use(skill) with a named skill the skills map holds that skill
\* under skill.name (replacing an earlier skill of that name) and the skill is attached
\* to the agent; use with a nameless skill throws and leaves the skills map unchanged.
C16_UseRegistersAndAttaches ==
    [][\A skill \in SkillObjects :
          Use(skill) =>
              IF skill.name # "" THEN Registered(skill) /\ skill.id \in attached'
              ELSE Refused]_vars

\* C16: after use(skill) with a named skill the skills map holds that skill under
\* skill.name (replacing an earlier skill of that name) and the skill, when it has an
\* attach method, is attached to the agent; use with a nameless skill throws and leaves
\* the skills map unchanged.
C16_UseRegistersAndAttachesIfAble ==
    [][\A skill \in SkillObjects :
          Use(skill) =>
              IF skill.name # ""
              THEN /\ Registered(skill)
                   /\ skill.hasAttach => skill.id \in attached'
                   /\ attached' \ attached \subseteq {skill.id}
              ELSE Refused]_vars

\* The second execution skill replaced the first, both were attached, and the last use,
\* of a nameless skill, threw
C16_Witness ==
    /\ call.op = "use"
    /\ DOMAIN skills = {"aggregation", "scoring", "execution"}
    /\ skills["execution"] = "execution#2"
    /\ {"execution#1", "execution#2"} \subseteq attached
    /\ ret # Pending /\ ret.threw

-----------------------------------------------------------------------------
(* aggregate over categories and market ids that contain hyphens: SpecKeys *)

\* The categories 'crypto' and 'crypto-eth', the market ids 'eth', '5k' and 'eth-5k'
KeyCategories == {<<"crypto">>, <<"crypto", "eth">>}
KeyMarkets == {<<"eth">>, <<"5k">>, <<"eth", "5k">>}

NextKeys ==
    \/ \E c \in Callers, m \in KeyMarkets, cat \in KeyCategories : AggregateStart(c, m, cat, 2)
    \/ \E c \in DOMAIN inflight :
          \E r \in SettledResults(fetches(call.config, inflight[c].category)) :
              AggregateFinish(c, r)

SpecKeys == InitAggregate /\ [][NextKeys]_vars

-----------------------------------------------------------------------------
(* Properties of the cache key, checked under SpecKeys *)

SamePair(i, j) ==
    returned[i].category = returned[j].category /\ returned[i].market = returned[j].market

\* C17: two aggregate calls whose (category, market id) pairs differ never read or
\* overwrite the same cache entry, and a call served from the cache returns a result
\* that a call for its own category and market computed.
C17_KeyedByCategoryAndMarket ==
    /\ \A i, j \in 1..Len(returned) :
           (IsAggregate(i) /\ IsAggregate(j) /\ ~SamePair(i, j)) =>
               returned[i].key # returned[j].key
    /\ \A j \in 1..Len(returned) :
           (IsAggregate(j) /\ returned[j].hit) =>
               \E i \in 1..(j - 1) :
                   /\ IsAggregate(i) /\ ~returned[i].hit /\ SamePair(i, j)
                   /\ returned[i].data = returned[j].data

-----------------------------------------------------------------------------
(* Properties of the TTL, checked under SpecAggregate *)

\* Call k stored the cache entry that call j found for its key when it began: k fetched
\* for that key and returned before j began, and neither a later fetch for the key nor
\* a clearCache came between
StoredEntryFor(k, j) ==
    /\ IsAggregate(k) /\ IsAggregate(j) /\ k <= returned[j].begun
    /\ returned[k].key = returned[j].key /\ ~returned[k].hit
    /\ \A n \in (k + 1)..returned[j].begun :
           /\ returned[n].op # "clearCache"
           /\ ~(IsAggregate(n) /\ returned[n].key = returned[j].key /\ ~returned[n].hit)

\* C18: a cache entry is served only while it is younger than the TTL: an aggregate call
\* made when the entry's age is at least the TTL does not return the entry; it fetches
\* from the sources again and replaces the entry with the new result and timestamp.
C18_ExpiredEntryRefetched ==
    /\ \A j \in 1..Len(returned) :
           (IsAggregate(j) /\ returned[j].hit) =>
               returned[j].at - returned[j].stored < cacheDuration
    /\ \A k, j \in 1..Len(returned) :
           (StoredEntryFor(k, j) /\ returned[j].at - returned[k].stored >= cacheDuration) =>
               /\ FetchedAndStored(j)
               /\ returned[j].stored >= returned[j].at
               /\ returned[j].data.timestamp = returned[j].stored

\* A call found an entry exactly as old as the TTL, fetched again and stored the result
C18_Witness ==
    \E k, j \in 1..Len(returned) :
        /\ StoredEntryFor(k, j)
        /\ returned[j].at - returned[k].stored = cacheDuration
        /\ FetchedAndStored(j)
        /\ j = Len(returned) /\ cache[returned[j].key].timestamp = returned[j].stored

-----------------------------------------------------------------------------
(* Further properties of calculateWeightedScore, checked under SpecScore *)

\* The weight of a signal in the mean: 1 when unspecified
WeightIn(signal) == IF signal.weight = Undefined THEN One ELSE signal.weight.v

\* The signal's weight is unspecified or positive
Weighted(signal) == signal.weight = Undefined \/ (IsNum(signal.weight) /\ signal.weight.v > 0)

\* (sentiment + 1) / 2
Linear(signal) == Div(signal.sentiment.v + One, 2 * One)

\* 0.5 + change24h / 100, clamped to [0,1]
Clamped(signal) == Max(0, Min(One, Pct(50) + Div(signal.change24h.v, 100 * One)))

\* The normalized value by the signal's type
ByType(signal) ==
    IF signal.type \in {"news", "social"} THEN Linear(signal)
    ELSE IF signal.type = "onchain" THEN Clamped(signal)
    ELSE Pct(50)

\* The normalized value of a signal where carrying a sentiment decides
BySentiment(signal) ==
    IF IsNum(signal.sentiment) THEN Linear(signal)
    ELSE IF signal.type = "onchain" THEN Clamped(signal)
    ELSE Pct(50)

\* The sum of values[i] * weight of signals[i]
RECURSIVE WeightedSum(_, _)
WeightedSum(signals, values) ==
    IF signals = <<>> THEN 0
    ELSE Mul(Head(values), WeightIn(Head(signals))) + WeightedSum(Tail(signals), Tail(values))

RECURSIVE TotalWeight(_)
TotalWeight(signals) ==
    IF signals = <<>> THEN 0 ELSE WeightIn(Head(signals)) + TotalWeight(Tail(signals))

\* A non-empty list of signals that carry the field their type reads, with weights
\* unspecified or positive, has been scored
MeanScored ==
    /\ ScoreDone /\ Len(call.signals) > 0
    /\ \A i \in 1..Len(call.signals) : WellFormed(call.signals[i]) /\ Weighted(call.signals[i])

\* The list of the example: a news signal with sentiment 0.8 and weight 0.25, an
\* on-chain signal with change24h 30 and weight 0.5
ExampleSignals ==
    <<Signal("news", Num(Pct(80)), Undefined, Num(Pct(25))),
      Signal("onchain", Undefined, Num(30 * One), Num(Pct(50)))>>

AnyWeightScored ==
    /\ ScoreDone /\ Len(call.signals) > 0
    /\ \A i \in 1..Len(call.signals) :
           /\ WellFormed(call.signals[i])
           /\ call.signals[i].weight = Undefined \/ IsNum(call.signals[i].weight)

\* C20: a signal's weight counts as 1 only when it is unspecified (a weight of 0 counts
\* as 0), and when the total weight of a non-empty list is 0, every signal having
\* weight 0, the score is 0.5.
C20_ZeroWeightCountsAsZero ==
    AnyWeightScored =>
        ret = IF TotalWeight(call.signals) = 0 THEN Num(Pct(50))
              ELSE Num(Div(WeightedSum(call.signals, [i \in 1..Len(call.signals) |->
                                                         ByType(call.signals[i])]),
                           TotalWeight(call.signals)))

-----------------------------------------------------------------------------
(* Properties of the base component, checked under SpecConfidence *)

BaseComponent == calculateBaseConfidence(call.prediction)

\* 1.1 for 'ensemble', 0.9 for 'naive' and 1.0 otherwise
modelFactor(model) ==
    IF model = "ensemble" THEN Pct(110) ELSE IF model = "naive" THEN Pct(90) ELSE One

\* The prediction's rawConfidence, taken as 0.5 when absent
RawOrHalf(prediction) ==
    IF prediction.rawConfidence = Undefined THEN Pct(50) ELSE prediction.rawConfidence.v

\* rawConfidence x modelFactor x (0.5 + 0.5 x dataQuality), at most 0.95
Dampened(prediction) ==
    Min(Mul(Mul(RawOrHalf(prediction), modelFactor(prediction.model)),
            Pct(50) + Mul(prediction.dataQuality.v, Pct(50))),
        Pct(95))

\* C21: for every dataQuality in [0,1] the base component equals
\* min(rawConfidence x modelFactor x (0.5 + 0.5 x dataQuality), 0.95), with
\* rawConfidence taken as 0.5 when absent; dataQuality = 0 halves the base score and
\* dataQuality = 1 leaves it unchanged.
C21_BaseDampenedByQuality ==
    (/\ CalculateDone
     /\ IsNum(call.prediction.dataQuality)
     /\ 0 <= call.prediction.dataQuality.v /\ call.prediction.dataQuality.v <= One)
    => BaseComponent = Dampened(call.prediction)

-----------------------------------------------------------------------------
(* Properties of the history blend, checked under SpecConfidence *)

\* The bucket of the 'default' ledger that matches the prediction's raw confidence
RawBucket == getCalibrationForConfidence(calibrationData, call.prediction.rawConfidence)

\* The history component computed without a ledger
HistoryWithoutLedger ==
    calculateHistoryConfidence(call.config, EmptyMap, call.performance, call.prediction)

\* C22: the 70/30 blend with the calibration-bucket accuracy is applied only when the
\* bucket matching the prediction's raw confidence has more than 5 samples; when that
\* bucket has 5 or fewer samples, or does not exist, the history component does not
\* depend on the ledger.
C22_BlendNeedsSixSamples ==
    (CalculateDone /\ (RawBucket = Undefined \/ RawBucket.samples <= 5))
    => HistoryComponent = HistoryWithoutLedger

-----------------------------------------------------------------------------
(* Properties of the calibration adjustment, checked under SpecConfidence *)

\* The combined confidence: the three components by their weights
CombinedStage ==
    Mul(BaseComponent, call.config.baseWeight)
    + Mul(calculateSignalConfidence(call.signals), call.config.signalWeight)
    + Mul(HistoryComponent, call.config.historyWeight)

\* What calculate makes of the combined confidence before the market adjustments
CalibratedStage ==
    IF call.config.calibrationEnabled
    THEN applyCalibration(calibrationData, CombinedStage, call.prediction.marketType)
    ELSE CombinedStage

\* The ledger of the prediction's market type, or of 'default' when that type has none
LedgerOfCall ==
    IF call.prediction.marketType \in DOMAIN calibrationData
    THEN calibrationData[call.prediction.marketType]
    ELSE IF "default" \in DOMAIN calibrationData THEN calibrationData["default"]
    ELSE Undefined

\* The key k of the 0.1-wide bucket [k/10, (k+1)/10) that contains the confidence
Containing(confidence) ==
    CHOOSE k \in 0..20 : k * One <= 10 * confidence /\ 10 * confidence < (k + 1) * One

\* Calibration is enabled, the ledger has at least 20 samples and the bucket of the
\* combined confidence more than 5
Adjusts ==
    /\ call.config.calibrationEnabled
    /\ LedgerOfCall # Undefined
    /\ LedgerOfCall.samples >= 20
    /\ Containing(CombinedStage) \in DOMAIN LedgerOfCall.buckets
    /\ LedgerOfCall.buckets[Containing(CombinedStage)].samples > 5

\* confidence + 0.3 x (bucketAccuracy - confidence)
Nudged ==
    CombinedStage
    + Mul(LedgerOfCall.buckets[Containing(CombinedStage)].accuracy - CombinedStage, Pct(30))

\* C23: the calibration adjustment changes the combined confidence only when
\* calibration is enabled, the ledger of the prediction's market type (or of 'default'
\* when that type has no ledger) has at least 20 samples, and the 0.1-wide bucket
\* containing the combined confidence has more than 5 samples; then the result is
\* confidence + 0.3 x (bucketAccuracy - confidence), and in every other case the
\* confidence is unchanged.  calculate returns the value so adjusted, after the market
\* adjustments and the clamp.
C23_CalibrationAdjustsWhenSampled ==
    CalculateDone =>
        /\ CalibratedStage = (IF Adjusts THEN Nudged ELSE CombinedStage)
        /\ ret = Num(Min(Max(applyMarketAdjustments(CalibratedStage, call.signals), Pct(1)),
                         Pct(99)))

\* A call whose combined confidence is moved by the adjustment, towards the accuracy
\* of a bucket of the 'election' ledger
C23_Witness ==
    /\ CalculateDone /\ Adjusts
    /\ call.prediction.marketType = "election"
    /\ "election" \in DOMAIN calibrationData
    /\ CalibratedStage # CombinedStage
    /\ CalibratedStage = Nudged

-----------------------------------------------------------------------------
(* ExecutionSkill.selectPlatform over skill configurations and categories: SpecRoute *)

\* The platform key of the skill's config: absent, or one of the three values the
\* constructor documents
RoutePlatforms == {"absent", "polymarket", "kalshi", "both"}

\* prediction.category; "undefined" when the prediction has none
RouteCategories == {"crypto", "politics", "sports", "culture", "undefined"}

InitRoute ==
    /\ call \in [op : {"selectPlatform"},
                 skill : [platform : RoutePlatforms, dryRun : {Absent}, bankroll : {Absent}]]
    /\ ret = Pending
    /\ calibrationData = EmptyMap
    /\ outcomes = <<>>
    /\ cache = EmptyMap /\ now = 0 /\ inflight = EmptyMap /\ fetched = 0 /\ returned = <<>>
    /\ dryRun = Undefined /\ clients = {} /\ placed = <<>> /\ trades = <<>>
    /\ executed = <<>>
    /\ AgentIdle

\* this.selectPlatform(prediction): the call and the venue it returned are logged
SelectPlatform(prediction) ==
    /\ call.op = "selectPlatform"
    /\ Len(returned) < MaxExecutes
    /\ LET platform == selectPlatform(ExecutionSkillConfig(call.skill), prediction)
       IN /\ ret' = [t |-> "string", v |-> platform]
          /\ returned' = Append(returned, [op |-> "selectPlatform",
                                           category |-> prediction.category,
                                           platform |-> platform])
    /\ UNCHANGED <<call, calibrationData, outcomes, cache, now, inflight, fetched, dryRun,
                   clients, placed, trades, executed, AgentVars>>

NextRoute == \E category \in RouteCategories : SelectPlatform([category |-> category])

SpecRoute == InitRoute /\ [][NextRoute]_vars

\* The venue the category alone decides: polymarket for crypto, kalshi for politics
\* and sports, polymarket for any other
VenueOf(category) ==
    IF category = "crypto" THEN "polymarket"
    ELSE IF category \in {"politics", "sports"} THEN "kalshi"
    ELSE "polymarket"

\* Every logged call with the same category got the same venue
SameVenue ==
    \A i, j \in 1..Len(returned) :
        returned[i].category = returned[j].category
            => returned[i].platform = returned[j].platform

ConfiguredPlatform ==
    IF call.skill.platform = "absent" THEN "polymarket" ELSE call.skill.platform

-----------------------------------------------------------------------------
(* OracleAI.start, OracleAI.stop and the interval timer: SpecOrchestrator *)

\* How many start() calls, stop() calls and timer ticks a behaviour makes
MaxEvents == 5

Event(op, of) == [op |-> op, of |-> of]

InitOrchestrator ==
    /\ call = [op |-> "orchestrate"]
    /\ ret = Pending
    /\ Idle

OrchestratorFrame ==
    <<call, ret, calibrationData, outcomes, cache, now, inflight, fetched, returned, dryRun,
      clients, placed, trades, executed, skills, attached, RecordVars, RegistryVars>>

\* start() up to its await: it returns at once if running, otherwise sets running and
\* invokes runAll()
Start ==
    /\ call.op = "orchestrate"
    /\ Len(events) < MaxEvents
    /\ IF running
       THEN /\ events' = Append(events, Event("start", 0))
            /\ UNCHANGED <<running, awaiting>>
       ELSE /\ running' = TRUE
            /\ events' = events \o <<Event("start", 0), Event("runAll", Len(events) + 1)>>
            /\ awaiting' = awaiting \cup {Len(events) + 1}
    /\ UNCHANGED <<timer, timers, OrchestratorFrame>>

\* start() after await this.runAll(): this.timer = setInterval(...)
StartResume(i) ==
    /\ i \in awaiting /\ events[i].op = "start"
    /\ timer' = i
    /\ timers' = timers \cup {i}
    /\ awaiting' = awaiting \ {i}
    /\ events' = Append(events, Event("started", i))
    /\ UNCHANGED <<running, OrchestratorFrame>>

\* stop() up to its first await: running = false, the held timer is cleared
Stop ==
    /\ call.op = "orchestrate"
    /\ Len(events) < MaxEvents
    /\ running' = FALSE
    /\ timers' = IF timer # NoTimer THEN timers \ {timer} ELSE timers
    /\ timer' = NoTimer
    /\ awaiting' = awaiting \cup {Len(events) + 1}
    /\ events' = Append(events, Event("stop", 0))
    /\ UNCHANGED OrchestratorFrame

\* stop() after the agents' shutdown(): it returns
StopReturn(i) ==
    /\ i \in awaiting /\ events[i].op = "stop"
    /\ awaiting' = awaiting \ {i}
    /\ events' = Append(events, Event("stopped", i))
    /\ UNCHANGED <<running, timer, timers, OrchestratorFrame>>

\* A scheduled interval fires: its callback invokes runAll()
Interval(handle) ==
    /\ handle \in timers
    /\ Len(events) < MaxEvents
    /\ events' = Append(events, Event("runAll", handle))
    /\ UNCHANGED <<running, timer, timers, awaiting, OrchestratorFrame>>

NextOrchestrator ==
    \/ Start
    \/ \E i \in awaiting : StartResume(i)
    \/ Stop
    \/ \E i \in awaiting : StopReturn(i)
    \/ \E handle \in timers : Interval(handle)

SpecOrchestrator == InitOrchestrator /\ [][NextOrchestrator]_vars

\* stop() call i has returned (as event j) and no start() was called after it
StoppedFor(i, j) ==
    /\ events[i].op = "stop"
    /\ events[j] = Event("stopped", i)
    /\ \A k \in (i + 1)..Len(events) : events[k].op # "start"

\* C25: once stop() has returned and no later start() has been called, no interval timer
\* remains scheduled and runAll is never invoked again, for every interleaving of
\* start() and stop(), and at no time is more than one interval timer live.
C25_StoppedMeansNoTimer ==
    /\ \A i, j \in 1..Len(events) :
          StoppedFor(i, j) =>
              /\ timers = {}
              /\ \A k \in (j + 1)..Len(events) : events[k].op # "runAll"
    /\ Cardinality(timers) <= 1

-----------------------------------------------------------------------------
(* PoliticsAI: init, run and execute under each autoExecute setting: SpecPolitics *)

\* The autoExecute key of the config given to new PoliticsAI(config): absent, true,
\* false, 'yes', 1
AutoExecuteOptions == {Absent, Bool(TRUE), Bool(FALSE), Str(3), Num(One)}

\* this.config of the agent after the PoliticsAI and BaseAgent constructors
PoliticsConfig(config) ==
    [minConfidence |-> Num(Pct(75)),
     maxBetSize |-> Num(300 * One),
     autoExecute |-> IF config.autoExecute = Absent
                     THEN OrElse(Get(config.autoExecute), Bool(FALSE))
                     ELSE config.autoExecute]

\* dryRun computed from a falsy autoExecute
dryRunOf_UnlessTruthy(autoExecute) == Bool(~Truthy(autoExecute))

\* this.config.autoExecute !== true
dryRunOf(autoExecute) == Bool(autoExecute # Bool(TRUE))

\* The config PoliticsAI.init gives to new ExecutionSkill(...)
PoliticsSkill(config) ==
    [platform |-> "kalshi", dryRun |-> dryRunOf(PoliticsConfig(config).autoExecute),
     bankroll |-> Undefined]

\* The three skills init() constructs and registers, made by the call at this place
PoliticsSkills(place) ==
    <<SkillObject(<<"aggregation", place>>, "aggregation", TRUE),
      SkillObject(<<"scoring", place>>, "scoring", TRUE),
      SkillObject(<<"execution", place>>, "execution", TRUE)>>

\* saveState(): the state written to state.json
SavedState(savedTrades, savedPerformance) ==
    [file |-> TRUE, trades |-> savedTrades, performance |-> savedPerformance]

PoliticsPredictions ==
    [confidence : {Num(Pct(50)), Num(Pct(80))},
     marketPrice : {Num(Pct(60))},
     category : {"politics"}]

InitPolitics ==
    /\ call \in [op : {"politics"}, agent : [autoExecute : AutoExecuteOptions]]
    /\ ret = Pending
    /\ calibrationData = EmptyMap
    /\ outcomes = <<>>
    /\ cache = EmptyMap /\ now = 0 /\ inflight = EmptyMap /\ fetched = 0 /\ returned = <<>>
    /\ dryRun = Undefined /\ clients = {} /\ placed = <<>> /\ trades = <<>>
    /\ executed = <<>>
    /\ AgentIdle

PoliticsFrame ==
    <<call, calibrationData, outcomes, cache, now, inflight, fetched, returned,
      running, timer, timers, RegistryVars>>

\* PoliticsAI.init() up to the first await of super.init(): the three skills are
\* constructed and registered; the new ExecutionSkill has no client yet
PoliticsInit ==
    /\ call.op = "politics"
    /\ Len(events) < MaxEvents
    /\ LET place == Len(events) + 1
           made == PoliticsSkills(place)
       IN /\ skills' = use(use(use(skills, made[1]), made[2]), made[3])
          /\ attached' = attached \cup {made[i].id : i \in 1..3}
          /\ awaiting' = awaiting \cup {place}
    /\ dryRun' = ExecutionSkillConfig(PoliticsSkill(call.agent)).dryRun
    /\ clients' = {}
    /\ events' = Append(events, Event("init", 0))
    /\ UNCHANGED <<ret, placed, trades, executed, statePerformance, disk, PoliticsFrame>>

\* The rest of init(): each registered skill's init(), then loadState()
PoliticsInitResume(i) ==
    /\ i \in awaiting /\ events[i].op = "init"
    /\ awaiting' = awaiting \ {i}
    /\ clients' = clients \cup clientsOf("kalshi")
    /\ trades' = IF disk.file THEN disk.trades ELSE trades
    /\ statePerformance' = IF disk.file THEN disk.performance ELSE statePerformance
    /\ events' = Append(events, Event("initialized", i))
    /\ UNCHANGED <<ret, dryRun, placed, executed, skills, attached, disk, PoliticsFrame>>

\* What BaseAgent.execute(prediction) does to the agent
Executing(prediction, filled) ==
    IF belowThreshold(prediction, PoliticsConfig(call.agent))
    THEN /\ ret' = Null
         /\ UNCHANGED <<placed, trades, executed, disk>>
    ELSE IF "execution" \notin DOMAIN skills
    THEN /\ ret' = Threw
         /\ UNCHANGED <<placed, trades, executed, disk>>
    ELSE LET done == execute([ExecutionSkillConfig(PoliticsSkill(call.agent))
                                  EXCEPT !.dryRun = dryRun],
                             PoliticsConfig(call.agent).maxBetSize, clients, prediction,
                             filled)
         IN /\ ret' = done.trade
            /\ executed' = Append(executed, done.trade)
            /\ placed' = placed \o done.orders
            /\ trades' = IF done.trade = Threw THEN trades ELSE Append(trades, done.trade)
            /\ disk' = IF done.trade = Threw THEN disk
                       ELSE SavedState(trades', statePerformance)

\* BaseAgent.execute(prediction), called on the agent
PoliticsExecute(prediction, filled) ==
    /\ call.op = "politics"
    /\ Len(events) < MaxEvents
    /\ Executing(prediction, filled)
    /\ events' = Append(events, Event("execute", 0))
    /\ UNCHANGED <<dryRun, clients, skills, attached, awaiting, statePerformance,
                   PoliticsFrame>>

\* What PoliticsAI.run() does to the agent, over a scan that found one market, for
\* which predict() gave this prediction
Running(prediction, filled) ==
    IF "execution" \notin DOMAIN skills
    THEN /\ ret' = Threw
         /\ UNCHANGED <<placed, trades, executed, disk>>
    ELSE IF "kalshi" \notin clients
         \/ JLess(prediction.confidence, PoliticsConfig(call.agent).minConfidence)
         \/ ~Truthy(PoliticsConfig(call.agent).autoExecute)
    THEN /\ ret' = Null
         /\ UNCHANGED <<placed, trades, executed, disk>>
    ELSE Executing(prediction, filled)

\* PoliticsAI.run(), called on the agent
PoliticsRun(prediction, filled) ==
    /\ call.op = "politics"
    /\ Len(events) < MaxEvents
    /\ Running(prediction, filled)
    /\ events' = Append(events, Event("run", 0))
    /\ UNCHANGED <<dryRun, clients, skills, attached, awaiting, statePerformance,
                   PoliticsFrame>>

NextPolitics ==
    \/ PoliticsInit
    \/ \E i \in awaiting : PoliticsInitResume(i)
    \/ \E prediction \in PoliticsPredictions, filled \in BOOLEAN :
          PoliticsExecute(prediction, filled)
    \/ \E prediction \in PoliticsPredictions, filled \in BOOLEAN :
          PoliticsRun(prediction, filled)

SpecPolitics == InitPolitics /\ [][NextPolitics]_vars

-----------------------------------------------------------------------------
(* BaseAgent.logOutcome on a fresh agent: SpecOutcomes *)

\* prediction.outcome and the actual outcome
OutcomeLabels == {"yes", "no"}

\* logOutcome that leaves the losses uncounted
logOutcome_WinsOnly(record, correct) ==
    LET counted == [record EXCEPT !.total = @ + 1,
                                  !.wins = IF correct THEN @ + 1 ELSE @]
    IN [counted EXCEPT !.winRate = Round(counted.wins * One, counted.total)]

\* logOutcome(prediction, actualOutcome): the performance record it leaves
logOutcome(record, correct) ==
    LET counted == [record EXCEPT !.total = @ + 1,
                                  !.wins = IF correct THEN @ + 1 ELSE @,
                                  !.losses = IF correct THEN @ ELSE @ + 1]
    IN [counted EXCEPT !.winRate = Round(counted.wins * One, counted.total)]

InitOutcomes ==
    /\ call = [op |-> "logOutcome"]
    /\ ret = Pending
    /\ Idle

\* logOutcome that also records the outcome in the calibration ledger
LogOutcome_Recording(predicted, actual) ==
    /\ call.op \in {"logOutcome", "politics"}
    /\ Len(events) < MaxEvents
    /\ statePerformance' = logOutcome(statePerformance, predicted = actual)
    /\ calibrationData' = recordOutcome(calibrationData, Num(Pct(65)), predicted = actual,
                                        "default")
    /\ disk' = SavedState(trades, statePerformance')
    /\ ret' = [predicted |-> predicted, actual |-> actual, correct |-> predicted = actual]
    /\ events' = Append(events, Event("logOutcome", <<predicted, actual>>))
    /\ UNCHANGED <<call, outcomes, cache, now, inflight, fetched, returned,
                   dryRun, clients, placed, trades, executed, skills, attached, running,
                   timer, timers, awaiting, RegistryVars>>

\* BaseAgent.logOutcome(prediction, actualOutcome), with the saveState() it ends in
LogOutcome(predicted, actual) ==
    /\ call.op \in {"logOutcome", "politics"}
    /\ Len(events) < MaxEvents
    /\ statePerformance' = logOutcome(statePerformance, predicted = actual)
    /\ disk' = SavedState(trades, statePerformance')
    /\ ret' = [predicted |-> predicted, actual |-> actual, correct |-> predicted = actual]
    /\ events' = Append(events, Event("logOutcome", <<predicted, actual>>))
    /\ UNCHANGED <<call, calibrationData, outcomes, cache, now, inflight, fetched, returned,
                   dryRun, clients, placed, trades, executed, skills, attached, running,
                   timer, timers, awaiting, RegistryVars>>

NextOutcomes == \E predicted \in OutcomeLabels, actual \in OutcomeLabels :
                    LogOutcome(predicted, actual)

SpecOutcomes == InitOutcomes /\ [][NextOutcomes]_vars

\* The logOutcome calls made so far whose prediction was right
CorrectCalls == {i \in 1..Len(events) : events[i].of[1] = events[i].of[2]}

\* C27: starting from a fresh agent, after any sequence of logOutcome calls the
\* performance record satisfies total = wins + losses = number of logOutcome calls, and
\* winRate = wins / total, which lies in [0,1].
C27_PerformanceCounts ==
    call.op = "logOutcome" =>
        /\ statePerformance.total = statePerformance.wins + statePerformance.losses
        /\ statePerformance.total = Len(events)
        /\ statePerformance.wins = Cardinality(CorrectCalls)
        /\ statePerformance.total > 0 =>
              statePerformance.winRate * statePerformance.total
                  \in (statePerformance.wins * One - statePerformance.total)
                      ..(statePerformance.wins * One + statePerformance.total)
        /\ 0 <= statePerformance.winRate /\ statePerformance.winRate <= One

\* Three outcomes were logged, two of them right
C27_Witness ==
    /\ call.op = "logOutcome"
    /\ statePerformance.total = 3 /\ statePerformance.wins = 2
    /\ statePerformance.losses = 1
    /\ statePerformance.winRate > Pct(60) /\ statePerformance.winRate < Pct(70)

-----------------------------------------------------------------------------
(* The edge condition of calculatePositionSize, checked under SpecSizer *)

\* C28: for a market price strictly between 0 and 1, a bankroll > 0 and a positive
\* maximum bet size, calculatePositionSize returns 0 exactly when
\* confidence <= marketPrice (no edge), and a strictly positive size whenever
\* confidence > marketPrice.
C28_SizeZeroIffNoEdge ==
    (SizerDone /\ ValidSizing) =>
        /\ IsNum(ret)
        /\ ret.v >= 0
        /\ ret.v = 0 <=> call.confidence.v <= call.marketPrice.v

-----------------------------------------------------------------------------
(* OracleAI.register and OracleAI.runAll: SpecRunAll *)

\* The ids agents are registered under
AgentIds == {"crypto", "politics"}

\* How an agent's run() ends: it resolves with a list of opportunities, rejects with an
\* Error, or rejects with undefined (a promise rejected without a reason)
RunOutcomes == {"list", "Error", "undefined"}

\* this.agents.set(agent.id, agent): an id already in the Map keeps its place
register(registry, agent) ==
    IF \E k \in 1..Len(registry) : registry[k].id = agent.id
    THEN [k \in 1..Len(registry) |->
             IF registry[k].id = agent.id THEN agent ELSE registry[k]]
    ELSE Append(registry, agent)

\* One turn of runAll's loop for this agent: run(), the results entry, logResults(),
\* and the catch; the catch itself throws when what was thrown has no message to read
runAllStep(sweep, agent, outcome, logged) ==
    LET failed == outcome # "list" \/ ~logged
        told == [sweep EXCEPT
                    !.next = @ + 1,
                    !.ran = Append(@, agent.object),
                    !.failed = IF failed THEN @ \cup {agent.object} ELSE @]
    IN IF outcome = "undefined"
       THEN [told EXCEPT !.state = "threw"]
       ELSE [told EXCEPT
                !.results = [id \in DOMAIN @ \cup {agent.id} |->
                                IF id = agent.id
                                THEN (IF failed THEN "error" ELSE "opportunities")
                                ELSE @[id]]]

InitRunAll ==
    /\ call = [op |-> "runAll"]
    /\ ret = Pending
    /\ Idle

RunAllFrame ==
    <<call, ret, calibrationData, outcomes, cache, now, inflight, fetched, returned, dryRun,
      clients, placed, trades, executed, skills, attached, running, timer, timers, awaiting,
      RecordVars>>

\* register(agent) with a new agent object of this id
Register(id) ==
    /\ call.op = "runAll"
    /\ Len(events) < MaxEvents
    /\ agents' = register(agents, [id |-> id, object |-> Len(events) + 1])
    /\ events' = Append(events, Event("register", id))
    /\ UNCHANGED <<sweeps, RunAllFrame>>

\* runAll() is called: results = {}
RunAll ==
    /\ call.op = "runAll"
    /\ Len(events) < MaxEvents
    /\ sweeps' = [s \in DOMAIN sweeps \cup {Len(events) + 1} |->
                     IF s = Len(events) + 1
                     THEN [next |-> 1, ran |-> <<>>, failed |-> {}, results |-> EmptyMap,
                           state |-> "running", registry |-> agents]
                     ELSE sweeps[s]]
    /\ events' = Append(events, Event("runAll", 0))
    /\ UNCHANGED <<agents, RunAllFrame>>

\* The loop of runAll() call s takes the next entry of the Map
RunAllStep(s, outcome, logged) ==
    /\ s \in DOMAIN sweeps
    /\ sweeps[s].state = "running"
    /\ sweeps[s].next <= Len(agents)
    /\ sweeps' = [sweeps EXCEPT ![s] = runAllStep(@, agents[@.next], outcome, logged)]
    /\ UNCHANGED <<agents, events, RunAllFrame>>

\* The loop of runAll() call s is over: return results
RunAllReturn(s) ==
    /\ s \in DOMAIN sweeps
    /\ sweeps[s].state = "running"
    /\ sweeps[s].next > Len(agents)
    /\ sweeps' = [sweeps EXCEPT ![s].state = "returned"]
    /\ UNCHANGED <<agents, events, RunAllFrame>>

NextRunAll ==
    \/ \E id \in AgentIds : Register(id)
    \/ RunAll
    \/ \E s \in DOMAIN sweeps, outcome \in RunOutcomes, logged \in BOOLEAN :
          RunAllStep(s, outcome, logged)
    \/ \E s \in DOMAIN sweeps : RunAllReturn(s)

SpecRunAll == InitRunAll /\ [][NextRunAll]_vars

\* runAll() call s is over, and no agent was registered while it ran
Swept(s) ==
    /\ sweeps[s].state # "running" \/ sweeps[s].next > Len(agents)
    /\ sweeps[s].registry = agents

\* The agent objects in the registry, in the order in which they were registered
RECURSIVE Sorted(_)
Sorted(objects) ==
    IF objects = {} THEN <<>>
    ELSE LET first == CHOOSE o \in objects : \A p \in objects : o <= p
         IN <<first>> \o Sorted(objects \ {first})
RegistrationOrder == Sorted({agents[k].object : k \in 1..Len(agents)})

\* C29: runAll never throws because an agent's run() throws, it invokes run() on every
\* registered agent in registration order, and its result has exactly one entry per
\* registered agent, which is an {error} entry if and only if that agent's run (or the
\* logging of its results) failed.
C29_RunAllIsolatesFailures ==
    \A s \in DOMAIN sweeps :
        /\ sweeps[s].state # "threw"
        /\ Swept(s) =>
              /\ sweeps[s].ran = RegistrationOrder
              /\ DOMAIN sweeps[s].results = {agents[k].id : k \in 1..Len(agents)}
              /\ \A k \in 1..Len(agents) :
                    sweeps[s].results[agents[k].id] = "error"
                        <=> agents[k].object \in sweeps[s].failed

-----------------------------------------------------------------------------
(* The operations of an agent and of the orchestrator on it: SpecLifecycle *)

\* The state.json the agent finds: none, or one that holds a record of 12 outcomes
SavedStates ==
    {NoFile,
     SavedState(<<>>, [total |-> 12, wins |-> 9, losses |-> 3, winRate |-> Pct(75),
                       pnl |-> 0])}

\* The config PoliticsAI.init gives to new ConfidenceScoringSkill(...)
PoliticsScoring == ScoringConfig(20, 40, 40, TRUE)

\* What predictElection and its siblings return to predict()
RawPredictions ==
    [rawConfidence : {Num(Pct(65)), Num(Pct(85))},
     model : {"polling_aggregate_v1"},
     dataQuality : {Num(Pct(50))},
     marketType : {"undefined"}]

\* What aggregateSignals() returns to predict(): no signals, or two that agree
AggregatedSignals ==
    [signals : {<<Evidence("news", Num(Pct(50))), Evidence("social", Num(Pct(50)))>>},
     volatility : {Undefined},
     liquidity : {Undefined}]

\* this.state.performance as calculate() reads it
PerformanceOf(record) ==
    Performance(Num(record.total * One), Num(record.winRate), Undefined,
                Num(record.pnl * One))

\* BaseAgent.calculateConfidence(prediction, signals)
calculateConfidence(registry, cd, prediction, signals, record) ==
    IF "scoring" \notin DOMAIN registry
    THEN Min(OrElse(prediction.rawConfidence, Num(Pct(50))).v, Pct(99))
    ELSE calculate(PoliticsScoring, cd, prediction, signals, PerformanceOf(record))

\* The prediction the lifecycle's run and execute calls are given
LifecyclePrediction ==
    [confidence |-> Num(Pct(80)), marketPrice |-> Num(Pct(60)), category |-> "politics"]

InitLifecycle ==
    /\ call = [op |-> "politics", agent |-> [autoExecute |-> Bool(TRUE)]]
    /\ ret = Pending
    /\ calibrationData = EmptyMap
    /\ outcomes = <<>>
    /\ cache = EmptyMap /\ now = 0 /\ inflight = EmptyMap /\ fetched = 0 /\ returned = <<>>
    /\ dryRun = Undefined /\ clients = {} /\ placed = <<>> /\ trades = <<>>
    /\ executed = <<>>
    /\ skills = EmptyMap /\ attached = {}
    /\ OrchestratorIdle /\ RegistryIdle
    /\ statePerformance = FreshPerformance
    /\ disk \in SavedStates

\* PoliticsAI.predict(market), at its call of calculateConfidence
Predict(prediction, signals) ==
    /\ call.op = "politics"
    /\ Len(events) < MaxEvents
    /\ LET confidence == calculateConfidence(skills, calibrationData, prediction, signals,
                                             statePerformance)
       IN /\ ret' = Num(confidence)
          /\ returned' = Append(returned, [op |-> "predict", prediction |-> prediction,
                                           signals |-> signals,
                                           performance |-> statePerformance,
                                           scored |-> "scoring" \in DOMAIN skills,
                                           confidence |-> confidence])
    /\ events' = Append(events, Event("predict", 0))
    /\ UNCHANGED <<call, calibrationData, outcomes, cache, now, inflight, fetched, dryRun,
                   clients, placed, trades, executed, skills, attached, running, timer,
                   timers, awaiting, statePerformance, disk, RegistryVars>>

\* BaseAgent.shutdown()
Shutdown ==
    /\ call.op = "politics"
    /\ Len(events) < MaxEvents
    /\ disk' = SavedState(trades, statePerformance)
    /\ events' = Append(events, Event("shutdown", 0))
    /\ UNCHANGED <<call, ret, calibrationData, outcomes, cache, now, inflight, fetched,
                   returned, dryRun, clients, placed, trades, executed, skills, attached,
                   running, timer, timers, awaiting, statePerformance, RegistryVars>>

\* OracleAI.runAll() with this agent registered: its run()
RunAllAgent(prediction, filled) ==
    /\ call.op = "politics"
    /\ Len(events) < MaxEvents
    /\ Running(prediction, filled)
    /\ events' = Append(events, Event("runAll", 0))
    /\ UNCHANGED <<dryRun, clients, skills, attached, awaiting, statePerformance,
                   PoliticsFrame>>

NextLifecycle ==
    \/ PoliticsInit
    \/ \E i \in awaiting : PoliticsInitResume(i)
    \/ PoliticsRun(LifecyclePrediction, TRUE)
    \/ \E prediction \in RawPredictions, signals \in AggregatedSignals :
          Predict(prediction, signals)
    \/ PoliticsExecute(LifecyclePrediction, TRUE)
    \/ \E actual \in OutcomeLabels : LogOutcome("yes", actual)
    \/ Shutdown
    \/ RunAllAgent(LifecyclePrediction, TRUE)

SpecLifecycle == InitLifecycle /\ [][NextLifecycle]_vars

\* The confidence calculate() gives with calibration disabled and no ledger
Unadjusted(prediction, signals, record) ==
    calculate([PoliticsScoring EXCEPT !.calibrationEnabled = FALSE], EmptyMap, prediction,
              signals, PerformanceOf(record))

\* C30: no operation of an agent or of the orchestrator (init, run, predict, execute,
\* logOutcome, shutdown, runAll) calls recordOutcome: across any sequence of these
\* operations the calibration ledger stays empty, so the calibration adjustment and
\* the history-bucket blend never change a confidence computed by an agent.
C30_LedgerStaysEmpty ==
    call.op = "politics" =>
        /\ calibrationData = EmptyMap
        /\ outcomes = <<>>
        /\ \A i \in 1..Len(returned) :
              returned[i].scored =>
                  returned[i].confidence
                      = Unadjusted(returned[i].prediction, returned[i].signals,
                                   returned[i].performance)

\* An agent with a history of 13 outcomes, the last logged by logOutcome, computed a
\* confidence with its scoring skill after a trade was executed
C30_Witness ==
    /\ call.op = "politics"
    /\ \E i \in 1..Len(events) : events[i].op = "logOutcome"
    /\ Len(trades) > 0
    /\ Len(returned) > 0
    /\ returned[Len(returned)].scored
    /\ returned[Len(returned)].performance.total = 13

====
